---- MODULE Spec2Model ----
(***************************************************************************)
(* Model of the capacity-constrained task scheduler of go-glx/frames       *)
(* (package frame/internal/schedule): Prioritize.calculateTaskPriority,    *)
(* Scheduler.Execute and Scheduler.run, and of the single-threaded loop    *)
(* Executor.Execute (package frame) that drives it.                        *)
(*                                                                         *)
(* Time.  One model tick is 1/MicroDiv of a microsecond (the code's clock  *)
(* counts nanoseconds, 1000 to the microsecond), so that Time.UnixMicro    *)
(* truncates as it does in the code.  Timestamps are integers counted from *)
(* a sliding epoch: the code reads only differences of timestamps and      *)
(* their position inside a microsecond, so every operation first moves the *)
(* epoch forward by whole microseconds (Rebase).  Time.Sub saturates at    *)
(* the largest Duration (MaxDuration here, 1<<63-1 ns in Go); a timestamp  *)
(* MaxDuration or more before the epoch is therefore indistinguishable     *)
(* from the zero Time and is stored as ZeroTime.                           *)
(*                                                                         *)
(* Scores.  The code computes a float32; the model keeps the exact         *)
(* rational num/den (den = 0 stands for the NaN of 0/0) and compares by    *)
(* cross-multiplication.  Rounding to float32 is not modelled.             *)
(*                                                                         *)
(* The clock advances between operations (Tick) and while a task function  *)
(* runs (the measured duration); the scheduler's own bookkeeping takes no  *)
(* time.                                                                   *)
(***************************************************************************)
EXTENDS Integers, Sequences, FiniteSets, TLC

\* ------------------------------------------------------------------ bounds
MicroDiv == 2
    \* model ticks per microsecond
MaxDuration == 6
    \* largest Duration (ticks): Time.Sub saturates here
MaxStep == 1
    \* largest advance of the clock between two operations
MaxCapacity == 2
    \* largest capacity handed to Execute
MaxRuns == 2
    \* runsCount is followed up to this value
AvgRuns == 4
    \* runs of one task followed for its moving average
AvgCost == 3
    \* largest measured duration of those runs
MaxCycles == 3
    \* cycles of Executor.Execute that are followed
MaxOversleep == 1
    \* how much longer than asked time.Sleep can take
DriftCycles == 1000
    \* cycles followed under a fixed timing error
MaxDrift == 2
    \* largest fixed timing error per cycle (ticks)
MaxRecalls == 1
    \* Execute calls followed after the first, on one Executor

Us(n) == n * MicroDiv
    \* n microseconds, in ticks

\* ------------------------------------------------------- priorities (code)
PriorityLow == 0
PriorityNormal == 1
PriorityHigh == 2

runPriorityNotNeed == [num |-> 0 - 1, den |-> 1]
runPriorityCritical == [num |-> 2, den |-> 1]

\* the multipliers 0.75, 1.00, 1.25 as quarters
MultiplierDen == 4
priorityAsMultiplier_high150 ==
    (PriorityLow :> 3) @@ (PriorityNormal :> 4) @@ (PriorityHigh :> 6)

priorityAsMultiplier ==
    (PriorityLow :> 3) @@ (PriorityNormal :> 4) @@ (PriorityHigh :> 5)

\* float32 comparisons on the exact rationals; a NaN (den = 0) compares
\* false with everything, as in IEEE 754
IsNaN(a) == a.den = 0
ScoreGE(a, b) == ~IsNaN(a) /\ ~IsNaN(b) /\ a.num * b.den >= b.num * a.den
ScoreEQ(a, b) == ~IsNaN(a) /\ ~IsNaN(b) /\ a.num * b.den = b.num * a.den
ScoreGT(a, b) == ~IsNaN(a) /\ ~IsNaN(b) /\ a.num * b.den > b.num * a.den

\* Bind(v, Op) is Op(v) with v evaluated once (TLC passes the arguments of
\* an operator unevaluated, and a loop state would be recomputed at every
\* use)
Bind(v, Op(_)) == CHOOSE r \in { Op(x) : x \in {v} } : TRUE

\* -------------------------------------------------------------- time (Go)
ZeroTime == 0 - MaxDuration

\* Time.Sub: the difference, saturated at the largest Duration
Sub(t, u) == IF t - u > MaxDuration THEN MaxDuration ELSE t - u

\* Time.UnixMicro: whole microseconds, rounded down
UnixMicro(t) == t \div MicroDiv

\* --------------------------------------------------------------- the state
VARIABLES
    now,      \* the wall clock (ticks since the sliding epoch)
    tasks,    \* Scheduler.tasks: the task list, in its current order
    call,     \* record of the last Scheduler.Execute call (history)
    exec,     \* the Executor: configuration, stats, and the position and
              \* local variables of its Execute call
    hist      \* record of the calls Executor.Execute has made (history)

vars == <<now, tasks, call, exec, hist>>

\* the Executor before NewExecutor, for the schedules that have none
NoExecutor == [pc |-> "none"]
NoHistory == [events |-> <<>>]

\* the task configurations the model registers: priority, runAtLeastOnceIn,
\* runAtMostOnceIn, and for the task function the durations (ticks) one call
\* of it can be measured at
Cfg(p, atLeast, atMost, times) ==
    [priority |-> p, runAtLeastOnceIn |-> atLeast, runAtMostOnceIn |-> atMost,
     taskFn |-> times]

Registrations ==
    { <<Cfg(PriorityLow, Us(2), Us(1), {1}),
        Cfg(PriorityNormal, Us(2), Us(1), {0, 1}),
        Cfg(PriorityHigh, Us(2), Us(1), {1})>>,
      <<Cfg(PriorityLow, Us(2), 0, {0, 1}),
        Cfg(PriorityNormal, Us(1), Us(2), {1}),
        Cfg(PriorityHigh, Us(2), Us(1), {1, 2})>> }

\* tasks are named by their position at registration
TaskIds == 1 .. Len(tasks)

\* NewTask as it would be if it stamped lastRunAt at construction
NewTask_stamped(id, cfg) ==
    [id |-> id,
     priority |-> cfg.priority,
     runAtLeastOnceIn |-> cfg.runAtLeastOnceIn,
     runAtMostOnceIn |-> cfg.runAtMostOnceIn,
     taskFn |-> cfg.taskFn,
     currentPriority |-> [num |-> 0, den |-> 1],
     lastRunAt |-> 0,
     avgDuration |-> 0,
     runsCount |-> 0]

\* NewTask: the stats fields start at their zero values
NewTask(id, cfg) ==
    [id |-> id,
     priority |-> cfg.priority,
     runAtLeastOnceIn |-> cfg.runAtLeastOnceIn,
     runAtMostOnceIn |-> cfg.runAtMostOnceIn,
     taskFn |-> cfg.taskFn,
     currentPriority |-> [num |-> 0, den |-> 1],
     lastRunAt |-> ZeroTime,
     avgDuration |-> 0,
     runsCount |-> 0]

\* NewScheduler: keeps the tasks in registration order
NewScheduler(reg) == [i \in 1 .. Len(reg) |-> NewTask(i, reg[i])]

NoCall == [op |-> "none"]

Init ==
    /\ now \in 0 .. (MicroDiv - 1)
    /\ \E reg \in Registrations : tasks = NewScheduler(reg)
    /\ call = NoCall
    /\ exec = NoExecutor
    /\ hist = NoHistory

\* ------------------------------------------------------------ the evaluator
\* the rate limit: the task ran less than runAtMostOnceIn ago
tooOften_unlessOverdue(task, sinceLast) ==
    sinceLast < task.runAtMostOnceIn /\ sinceLast < task.runAtLeastOnceIn

tooOften_whenConfigured(task, sinceLast) ==
    /\ task.runAtMostOnceIn < task.runAtLeastOnceIn
    /\ sinceLast < task.runAtMostOnceIn

tooOften_offByOne(task, sinceLast) == sinceLast + 1 < task.runAtMostOnceIn

tooOften(task, sinceLast) == sinceLast < task.runAtMostOnceIn

\* the deadline: the task ran runAtLeastOnceIn ago or earlier
overdue_strict(task, sinceLast) == sinceLast > task.runAtLeastOnceIn

overdue(task, sinceLast) == sinceLast >= task.runAtLeastOnceIn

calculateTaskPriority(task, t) ==
    LET sinceLast == Sub(t, task.lastRunAt) IN
    IF tooOften(task, sinceLast) THEN runPriorityNotNeed
    ELSE IF overdue(task, sinceLast) THEN runPriorityCritical
    ELSE LET maxOverdueAt == task.lastRunAt + task.runAtLeastOnceIn
             pos == UnixMicro(t) - UnixMicro(task.lastRunAt)
             span == UnixMicro(maxOverdueAt) - UnixMicro(task.lastRunAt)
         IN  [num |-> pos * priorityAsMultiplier[task.priority],
              den |-> span * MultiplierDen]

\* ------------------------------------------------------------ the scheduler
\* sort.Slice(s.tasks, less) with less(i, j) = currentPriority[i] >=
\* currentPriority[j]; for a slice this short sort.Slice is the insertion
\* sort below (for i := a+1; i < b; i++ { for j := i; j > a &&
\* less(j, j-1); j-- { swap(j, j-1) } })
less_ascending(s, i, j) ==
    ScoreGE(s[j].currentPriority, s[i].currentPriority)

less(s, i, j) == ScoreGE(s[i].currentPriority, s[j].currentPriority)

Swap_overwrites(s, i, j) == [s EXCEPT ![i] = s[j]]

Swap(s, i, j) == [s EXCEPT ![i] = s[j], ![j] = s[i]]

RECURSIVE Sink(_, _)
Sink(s, j) ==
    IF j > 1 /\ less(s, j, j - 1)
    THEN Bind(Swap(s, j, j - 1), LAMBDA x : Sink(x, j - 1))
    ELSE s

RECURSIVE SortFrom(_, _)
SortFrom(s, i) ==
    IF i > Len(s) THEN s ELSE Bind(Sink(s, i), LAMBDA x : SortFrom(x, i + 1))

sortSlice_none(s) == s

sortSlice(s) == SortFrom(s, 2)

\* Scheduler.run on the task at position i: the task function takes d ticks.
\* avgDuration * runsCount is at most the time the task has spent running,
\* so the int64 product does not wrap and is computed exactly here.
run_stampsEnd(ts, i, clock, d) ==
    [ts EXCEPT ![i] =
        [@ EXCEPT !.lastRunAt = clock + d,
                  !.avgDuration =
                      ((ts[i].avgDuration * ts[i].runsCount) + d)
                          \div (ts[i].runsCount + 1),
                  !.runsCount = ts[i].runsCount + 1]]

run_unweighted(ts, i, clock, d) ==
    [ts EXCEPT ![i] =
        [@ EXCEPT !.lastRunAt = clock,
                  !.avgDuration =
                      (ts[i].avgDuration + d) \div (ts[i].runsCount + 1),
                  !.runsCount = ts[i].runsCount + 1]]

run(ts, i, clock, d) ==
    [ts EXCEPT ![i] =
        [@ EXCEPT !.lastRunAt = clock,
                  !.avgDuration =
                      ((ts[i].avgDuration * ts[i].runsCount) + d)
                          \div (ts[i].runsCount + 1),
                  !.runsCount = ts[i].runsCount + 1]]

\* one run inside Execute: st is the loop state, deduct says whether the
\* measured duration is taken from the capacity
RunStep_byAverage(st, i, d, deduct) ==
    [capacity |-> IF deduct THEN st.capacity - st.tasks[i].avgDuration
                  ELSE st.capacity,
     clock |-> st.clock + d,
     tasks |-> run(st.tasks, i, st.clock, d),
     trace |-> Append(st.trace,
                 [id |-> st.tasks[i].id,
                  at |-> st.clock,
                  duration |-> d,
                  capBefore |-> st.capacity,
                  capAfter |-> IF deduct
                               THEN st.capacity - st.tasks[i].avgDuration
                               ELSE st.capacity]),
     visits |-> st.visits]

RunStep(st, i, d, deduct) ==
    [capacity |-> IF deduct THEN st.capacity - d ELSE st.capacity,
     clock |-> st.clock + d,
     tasks |-> run(st.tasks, i, st.clock, d),
     trace |-> Append(st.trace,
                 [id |-> st.tasks[i].id,
                  at |-> st.clock,
                  duration |-> d,
                  capBefore |-> st.capacity,
                  capAfter |-> IF deduct THEN st.capacity - d ELSE st.capacity]),
     visits |-> st.visits]

\* the loop examines the task at position i and takes the named branch
\* (history: which tasks the loop reached, and with what capacity left)
Visit(st, i, branch) ==
    [st EXCEPT !.visits = Append(@, [id |-> st.tasks[i].id,
                                     capacity |-> st.capacity,
                                     branch |-> branch])]

\* the tests of the loop body, in the order the loop makes them
isNotNeed(task) == ScoreEQ(task.currentPriority, runPriorityNotNeed)

isCritical_one(task) == ScoreEQ(task.currentPriority, [num |-> 1, den |-> 1])

isCritical(task) == ScoreEQ(task.currentPriority, runPriorityCritical)

budgetSpent_negativeOnly(capacity) == capacity < 0

budgetSpent(capacity) == capacity <= 0

costUnknown(task) == task.avgDuration <= 0

doesNotFit_orEqual(task, capacity) == task.avgDuration >= capacity

doesNotFit(task, capacity) == task.avgDuration > capacity

\* the loop over the sorted tasks, from position i
RECURSIVE Loop(_, _, _)
Loop(st, i, dur) ==
    IF i > Len(st.tasks) THEN st
    ELSE LET task == st.tasks[i] IN
         IF isNotNeed(task)
         THEN Bind(Visit(st, i, "notNeed"), LAMBDA x : Loop(x, i + 1, dur))
         ELSE IF isCritical(task)
         THEN Bind(RunStep(Visit(st, i, "critical"), i, dur[task.id], TRUE),
                   LAMBDA x : Loop(x, i + 1, dur))
         ELSE IF budgetSpent(st.capacity) THEN Visit(st, i, "break")
         ELSE IF costUnknown(task)
         THEN RunStep(Visit(st, i, "unknown"), i, dur[task.id], FALSE)
         ELSE IF doesNotFit(task, st.capacity)
         THEN Bind(Visit(st, i, "skip"), LAMBDA x : Loop(x, i + 1, dur))
         ELSE Bind(RunStep(Visit(st, i, "admit"), i, dur[task.id], TRUE),
                   LAMBDA x : Loop(x, i + 1, dur))

\* the tasks with their scores at time t
Scored(ts, t) ==
    [i \in 1 .. Len(ts) |->
        [ts[i] EXCEPT !.currentPriority = calculateTaskPriority(ts[i], t)]]

\* Scheduler.Execute(capacity) at time t; dur[id] is what the task function
\* of task id takes if it is run
ExecuteResult(ts, t, capacity, dur) ==
    Bind(sortSlice(Scored(ts, t)),
         LAMBDA sorted : Loop([capacity |-> capacity, clock |-> t,
                               tasks |-> sorted, trace |-> <<>>,
                               visits |-> <<>>], 1, dur))

\* ------------------------------------------------------- the sliding epoch
Shift == (now \div MicroDiv) * MicroDiv

RebasedNow == now - Shift

RebaseTime(t) == IF t - Shift < ZeroTime THEN ZeroTime ELSE t - Shift

RebasedTasks ==
    [i \in 1 .. Len(tasks) |->
        [tasks[i] EXCEPT !.lastRunAt = RebaseTime(tasks[i].lastRunAt)]]

\* ------------------------------------------------------------- the actions
Capacities == (0 - 1) .. MaxCapacity

\* the durations the task functions can take, one per task id
TaskTimes ==
    { dur \in [TaskIds -> UNION { tasks[i].taskFn : i \in 1 .. Len(tasks) }] :
        \A i \in 1 .. Len(tasks) : dur[tasks[i].id] \in tasks[i].taskFn }

\* what the history keeps of the tasks as they were scored
ScoredAt(ts, t) ==
    [id \in TaskIds |->
        LET i == CHOOSE k \in 1 .. Len(ts) : ts[k].id = id IN
        [score |-> calculateTaskPriority(ts[i], t),
         sinceLast |-> Sub(t, ts[i].lastRunAt),
         avgDuration |-> ts[i].avgDuration,
         runsCount |-> ts[i].runsCount,
         lastRunAt |-> ts[i].lastRunAt,
         priority |-> ts[i].priority,
         runAtLeastOnceIn |-> ts[i].runAtLeastOnceIn,
         runAtMostOnceIn |-> ts[i].runAtMostOnceIn]]

Execute(capacity, dur) ==
    /\ \A i \in 1 .. Len(tasks) : tasks[i].runsCount < MaxRuns
    /\ \E r \in {ExecuteResult(RebasedTasks, RebasedNow, capacity, dur)} :
       /\ now' = r.clock
       /\ tasks' = r.tasks
       /\ call' = [op |-> "execute",
                   capacity |-> capacity,
                   scored |-> ScoredAt(RebasedTasks, RebasedNow),
                   trace |-> r.trace,
                   visits |-> r.visits]
       /\ UNCHANGED <<exec, hist>>

\* the clock advances by d between two operations
Tick(d) ==
    /\ now' = RebasedNow + d
    /\ tasks' = RebasedTasks
    /\ call' = NoCall
    /\ UNCHANGED <<exec, hist>>

Next ==
    \/ \E d \in 1 .. MaxStep : Tick(d)
    \/ \E capacity \in Capacities, dur \in TaskTimes :
           Execute(capacity, dur)

Spec == Init /\ [][Next]_vars

\* ---------------------------------------------------- reading the history
Called == call.op = "execute"

TraceLen == IF Called THEN Len(call.trace) ELSE 0

\* task id was run in the last Execute call
Ran(id) == Called /\ \E k \in 1 .. Len(call.trace) : call.trace[k].id = id

\* how task id was scored at the start of the last Execute call
ScoreOf(id) == call.scored[id].score
WasCritical(id) == ScoreEQ(ScoreOf(id), runPriorityCritical)
WasNotNeeded(id) == ScoreEQ(ScoreOf(id), runPriorityNotNeed)

\* ------------------------------------------------ the never-ending schedule
\* For behaviours without end runsCount cannot grow for ever: here it stops
\* at MaxRuns (the weight of the moving average stops growing with it).
\* Scoring reads neither runsCount nor avgDuration.
CapRuns(ts) ==
    [i \in 1 .. Len(ts) |->
        [ts[i] EXCEPT !.runsCount = IF @ > MaxRuns THEN MaxRuns ELSE @]]

\* the registrations of the never-ending schedule: a well configured task
\* next to one whose rate limit exceeds its deadline
LiveRegistrations ==
    { <<Cfg(PriorityLow, Us(2), Us(1), {0, 1}),
        Cfg(PriorityHigh, Us(1), Us(2), {1})>> }

LiveInit ==
    /\ now \in 0 .. (MicroDiv - 1)
    /\ \E reg \in LiveRegistrations : tasks = NewScheduler(reg)
    /\ call = NoCall
    /\ exec = NoExecutor
    /\ hist = NoHistory

LiveExecute(capacity, dur) ==
    \E r \in {ExecuteResult(RebasedTasks, RebasedNow, capacity, dur)} :
    /\ now' = r.clock
    /\ tasks' = CapRuns(r.tasks)
    /\ call' = [op |-> "execute", capacity |-> capacity, trace |-> r.trace]
    /\ UNCHANGED <<exec, hist>>

LiveTick == \E d \in 1 .. MaxStep : Tick(d)

LiveCall ==
    \E capacity \in Capacities, dur \in TaskTimes : LiveExecute(capacity, dur)

LiveNext == LiveTick \/ LiveCall

\* Execute is called again and again, and the clock keeps advancing
LiveSpec ==
    LiveInit /\ [][LiveNext]_vars /\ WF_vars(LiveTick) /\ WF_vars(LiveCall)

\* ------------------------------------------------- the crowded schedule
\* Three tasks whose deadline is far enough for all of them to wait with a
\* continuous score at once, one of them with a task function of varying
\* cost.
FitRegistrations ==
    { <<Cfg(PriorityLow, MaxDuration - 1, 1, {1}),
        Cfg(PriorityNormal, MaxDuration - 1, 1, {1}),
        Cfg(PriorityHigh, MaxDuration - 1, 1, {1, 2})>> }

FitInit ==
    /\ now \in 0 .. (MicroDiv - 1)
    /\ \E reg \in FitRegistrations : tasks = NewScheduler(reg)
    /\ call = NoCall
    /\ exec = NoExecutor
    /\ hist = NoHistory

FitSpec == FitInit /\ [][Next]_vars

\* ------------------------------------------------- one task, run by run
\* Scheduler.run applied again and again to one task, each time with its
\* own measured duration.  call keeps the current streak of equal
\* durations: the duration d, the number n of runs in the streak, and
\* avgDuration and runsCount as they were before the streak began.
AvgRegistrations == { <<Cfg(PriorityNormal, Us(2), Us(1), 0 .. AvgCost)>> }

AvgInit ==
    /\ now \in 0 .. (MicroDiv - 1)
    /\ \E reg \in AvgRegistrations : tasks = NewScheduler(reg)
    /\ call = NoCall
    /\ exec = NoExecutor
    /\ hist = NoHistory

RunTask(d) ==
    /\ tasks[1].runsCount < AvgRuns
    /\ now' = RebasedNow + d
    /\ tasks' = run(RebasedTasks, 1, RebasedNow, d)
    /\ call' = IF call.op = "run" /\ call.d = d
               THEN [call EXCEPT !.n = @ + 1]
               ELSE [op |-> "run", d |-> d, n |-> 1,
                     avgBefore |-> tasks[1].avgDuration,
                     runsBefore |-> tasks[1].runsCount]
    /\ UNCHANGED <<exec, hist>>

AvgNext == \E d \in tasks[1].taskFn : RunTask(d)

AvgSpec == AvgInit /\ [][AvgNext]_vars

\* ------------------------------------------------------- the scored task
\* calculateTaskPriority on its own: one task of any priority, deadline
\* and rate limit up to the largest Duration, never run or last run at any
\* point of a microsecond, scored at any later clock value
ScoreDurations == 0 .. MaxDuration
ScoreStamps == {ZeroTime} \cup (0 .. Us(1))
ScoreClocks == 0 .. (Us(1) + MaxDuration)

ScoreInit ==
    /\ \E p \in {PriorityLow, PriorityNormal, PriorityHigh},
          atLeast \in ScoreDurations, atMost \in ScoreDurations,
          last \in ScoreStamps :
           tasks = <<[NewTask(1, Cfg(p, atLeast, atMost, {0}))
                         EXCEPT !.lastRunAt = last]>>
    /\ now \in ScoreClocks
    /\ now >= tasks[1].lastRunAt
    /\ call = NoCall
    /\ exec = NoExecutor
    /\ hist = NoHistory

ScoreCall ==
    /\ call = NoCall
    /\ call' = [op |-> "score",
                score |-> calculateTaskPriority(tasks[1], now),
                sinceLast |-> Sub(now, tasks[1].lastRunAt)]
    /\ UNCHANGED <<now, tasks, exec, hist>>

ScoreNext == ScoreCall

ScoreSpec == ScoreInit /\ [][ScoreNext]_vars

\* ------------------------------------------------------------ the Executor
\* Executor.Execute is followed statement by statement; one action is one
\* stretch of the loop up to and including a call that takes time (the
\* update callback, the draw callback, Scheduler.Execute, time.Sleep, the
\* stats collector).  The clock advances only inside these calls.  The
\* loop's timestamps are readings of the running clock a few cycles apart,
\* far from the saturation of Time.Sub, so their differences are exact.
\* Timestamps of this schedule count from the start of the model run (no
\* sliding epoch: the cycles followed are bounded).
Second == Us(5)
    \* time.Second on the model's scale

ErrBehaviorExit == "exit"
ErrBehaviorLog == "log"

\* the configurations NewExecutor is given: the error policy, the target
\* rate, whether a stats collector is set, and the tasks
ErrBehaviors == {ErrBehaviorExit, ErrBehaviorLog}
TargetRates == {2, 3}
ExecRegistrations == { <<Cfg(PriorityLow, Us(2), Us(1), {1})>> }

\* what one call of the update and of the draw callback can take (the
\* stats collector is taken to return at once)
UpdateTimes == {0, 2}
DrawTimes == {0, 4}

\* Duration.Microseconds: whole microseconds, rounded towards zero
Microseconds(d) ==
    IF d >= 0 THEN d \div MicroDiv ELSE 0 - ((0 - d) \div MicroDiv)

\* math.Mod(x, y) for y > 0: the remainder with the sign of x
Mod(x, y) == IF x >= 0 THEN x % y ELSE 0 - ((0 - x) % y)

ZeroStats ==
    [CycleID |-> 0, TargetTPS |-> 0, PossibleFPS |-> 0, Rate |-> 0,
     GameStart |-> ZeroTime, GameDuration |-> 0,
     CycleStart |-> ZeroTime, CycleDuration |-> 0,
     TickStart |-> ZeroTime, TickDuration |-> 0,
     FrameStart |-> ZeroTime, FrameDuration |-> 0,
     TasksStart |-> ZeroTime, TasksDuration |-> 0,
     ThrottleTime |-> 0, CurrentTPS |-> 0, CurrentFPS |-> 0]

\* NewExecutor, with the initializers applied
NewExecutor(behavior, tps, collector) ==
    [pc |-> "idle",
     frameErrBehavior |-> behavior,
     targetTPS |-> tps,
     statsCollector |-> collector,
     interrupted |-> FALSE,
     ctx |-> "none",
     listener |-> "none",
     stats |-> ZeroStats,
     lastSyncAt |-> ZeroTime,
     throttleCorrection |-> 0,
     resetCountersAt |-> ZeroTime,
     currentTPS |-> 0,
     currentFPS |-> 0,
     deltaTime |-> 0,
     updateDelta |-> 0,
     requiredUpdate |-> FALSE,
     ret |-> [kind |-> "none"]]

NewHistory ==
    [events |-> <<>>,        \* the calls of the current (or last) cycle
     updates |-> 0,          \* update calls of that cycle
     draws |-> 0,            \* draw calls of that cycle
     ended |-> 0,            \* cycles that reached their end, so far
     sinks |-> 0,            \* calls of the stats collector, so far
     calls |-> 0,            \* update and draw calls, so far
     failed |-> 0,           \* those that returned an error
     logged |-> 0,           \* calls of the logger, so far
     integrated |-> 0,       \* the DeltaTime of the update calls so far,
                             \* added up
     cancel |-> "off",       \* where the loop was when the context was
                             \* cancelled (kept by CancelSpec only)
     fixed |-> "off",        \* the fixed timings of the run (DriftSpec only)
     barred |-> FALSE,       \* whether an earlier Execute call on this
                             \* Executor ended by cancellation (ReExecSpec
                             \* only)
     counting |-> FALSE,     \* whether the calls between two counter
                             \* resets are counted (CounterSpec only)
     counted |-> [tps |-> 0, fps |-> 0, resetAt |-> 0, resets |-> 0],
                             \* update and draw calls since the last counter
                             \* reset (or the loop start), when that was,
                             \* and the resets so far
     step |-> [op |-> "new"]]
                             \* the last step and its inputs

ExecInit ==
    /\ now = 0
    /\ \E reg \in ExecRegistrations : tasks = NewScheduler(reg)
    /\ call = NoCall
    /\ \E behavior \in ErrBehaviors, tps \in TargetRates, collector \in BOOLEAN :
           exec = NewExecutor(behavior, tps, collector)
    /\ hist = NewHistory

\* Execute, up to the loop: the cancellation listener is started and the
\* loop state initialised
initLoop(e, t) ==
    LET rate == Second \div e.targetTPS IN
    [e EXCEPT
        !.pc = "top",
        !.ctx = "live",
        !.listener = "waiting",
        !.stats = [@ EXCEPT !.CycleID = 0,
                            !.TargetTPS = e.targetTPS,
                            !.Rate = rate,
                            !.GameStart = t,
                            !.CurrentTPS = e.targetTPS,
                            !.CurrentFPS = e.targetTPS],
        !.lastSyncAt = t - rate,
        !.throttleCorrection = 0,
        !.resetCountersAt = t + Second,
        !.currentTPS = 0,
        !.currentFPS = 0]

ExecuteCall ==
    /\ exec.pc = "idle"
    /\ exec' = initLoop(exec, now)
    /\ hist' = [hist EXCEPT
                   !.counted = IF hist.counting
                               THEN [tps |-> 0, fps |-> 0, resetAt |-> now,
                                     resets |-> 0]
                               ELSE @,
                   !.step = [op |-> "call"]]
    /\ UNCHANGED <<now, tasks, call>>

\* the modulo correction of the cycle that starts at t
correctionOf_none(st, t) == 0

correctionOf(st, t) ==
    LET idealStartAt == st.GameStart + ((st.CycleID - 1) * st.Rate)
        diffFromIdeal == Microseconds(t - idealStartAt)
    IN  Us(Mod(diffFromIdeal, Microseconds(st.Rate)))

\* what the catch-up loop starts from
updateDelta_noHeadStart(rate, deltaTime) == deltaTime

updateDeltaOf(rate, deltaTime) == rate + deltaTime

CycleID_kept(id) == id

nextCycleID(id) == id + 1

\* the head of a cycle: Start, and Tick up to the catch-up loop
startCycle_carriesRemainder(e, t) ==
    LET id == nextCycleID(e.stats.CycleID)
        deltaTime == t - e.lastSyncAt
        st == [e.stats EXCEPT !.CycleID = id, !.CycleStart = t,
                              !.TickStart = t]
    IN  [e EXCEPT
            !.pc = "tick",
            !.stats = st,
            !.deltaTime = deltaTime,
            !.lastSyncAt = e.lastSyncAt + deltaTime,
            !.throttleCorrection = correctionOf(st, t),
            !.updateDelta = e.updateDelta + updateDeltaOf(st.Rate, deltaTime),
            !.requiredUpdate = TRUE]

startCycle(e, t) ==
    LET id == nextCycleID(e.stats.CycleID)
        deltaTime == t - e.lastSyncAt
        st == [e.stats EXCEPT !.CycleID = id, !.CycleStart = t,
                              !.TickStart = t]
    IN  [e EXCEPT
            !.pc = "tick",
            !.stats = st,
            !.deltaTime = deltaTime,
            !.lastSyncAt = e.lastSyncAt + deltaTime,
            !.throttleCorrection = correctionOf(st, t),
            !.updateDelta = updateDeltaOf(st.Rate, deltaTime),
            !.requiredUpdate = TRUE]

CycleStart ==
    /\ exec.pc = "top"
    /\ ~exec.interrupted
    /\ exec.stats.CycleID < MaxCycles
    /\ exec' = startCycle(exec, now)
    /\ hist' = [hist EXCEPT !.events = <<>>, !.updates = 0, !.draws = 0,
                            !.step = [op |-> "start"]]
    /\ UNCHANGED <<now, tasks, call>>

\* the loop condition fails: Execute returns nil
LoopExit ==
    /\ exec.pc = "top"
    /\ exec.interrupted
    /\ exec' = [exec EXCEPT !.pc = "returned", !.ret = [kind |-> "nil"]]
    /\ hist' = [hist EXCEPT !.step = [op |-> "exit"]]
    /\ UNCHANGED <<now, tasks, call>>

\* error values: nil, or the error a failing callback returned, named by
\* the callback, the cycle and its rank among the failures so far
NilError == [kind |-> "nil"]
ErrorOf(from, cycle, rank) ==
    [kind |-> "err", from |-> from, cycle |-> cycle, rank |-> rank]

\* handleError: the error Execute has to return (or nil), and whether the
\* logger was called
handleError_exitSwallows(behavior, err) == [next |-> NilError, logs |-> FALSE]

handleError_logReturns(behavior, err) ==
    IF behavior = ErrBehaviorExit THEN [next |-> err, logs |-> FALSE]
    ELSE [next |-> err, logs |-> TRUE]

handleError(behavior, err) ==
    IF behavior = ErrBehaviorExit THEN [next |-> err, logs |-> FALSE]
    ELSE IF behavior = ErrBehaviorLog THEN [next |-> NilError, logs |-> TRUE]
    ELSE [next |-> NilError, logs |-> FALSE]

\* what a callback's result does to the loop: res is the error it returned
afterCallback(e, res) ==
    IF res.kind = "nil" THEN NilError
    ELSE handleError(e.frameErrBehavior, res).next

callLogs(e, res) ==
    res.kind = "err" /\ handleError(e.frameErrBehavior, res).logs

\* the catch-up loop condition
needsUpdate(e) == e.updateDelta > e.stats.Rate

\* one iteration of the catch-up loop; the callback returns res
callUpdate_errorSkipsStep(e, res) ==
    LET first == IF e.requiredUpdate THEN e.updateDelta - e.stats.Rate
                 ELSE e.updateDelta
        next == afterCallback(e, res)
    IN  IF next.kind = "err"
        THEN [e EXCEPT !.pc = "returned", !.ret = next,
                       !.requiredUpdate = FALSE,
                       !.updateDelta = first,
                       !.currentTPS = @ + 1]
        ELSE [e EXCEPT !.requiredUpdate = FALSE,
                       !.updateDelta = IF res.kind = "err" THEN first
                                       ELSE first - e.stats.Rate,
                       !.currentTPS = @ + 1]

callUpdate(e, res) ==
    LET first == IF e.requiredUpdate THEN e.updateDelta - e.stats.Rate
                 ELSE e.updateDelta
        next == afterCallback(e, res)
    IN  IF next.kind = "err"
        THEN [e EXCEPT !.pc = "returned", !.ret = next,
                       !.requiredUpdate = FALSE,
                       !.updateDelta = first,
                       !.currentTPS = @ + 1]
        ELSE [e EXCEPT !.requiredUpdate = FALSE,
                       !.updateDelta = first - e.stats.Rate,
                       !.currentTPS = @ + 1]

\* the events a callback leaves in the history: the call with the
\* TickStats it is handed (CycleID, DeltaTime), its times and its result,
\* and the logger's call
CallEvents_fixedStep(e, kind, res, t, d) ==
    <<[kind |-> kind, cycle |-> e.stats.CycleID, deltaTime |-> e.stats.Rate,
       at |-> t, until |-> t + d, res |-> res]>>
    \o (IF callLogs(e, res) THEN <<[kind |-> "log", err |-> res]>> ELSE <<>>)

CallEvents(e, kind, res, t, d) ==
    <<[kind |-> kind, cycle |-> e.stats.CycleID, deltaTime |-> e.deltaTime,
       at |-> t, until |-> t + d, res |-> res]>>
    \o (IF callLogs(e, res) THEN <<[kind |-> "log", err |-> res]>> ELSE <<>>)

Outcome(from, fails) ==
    IF fails
    THEN ErrorOf(from, exec.stats.CycleID, hist.failed + 1)
    ELSE NilError

Recorded(kind, res, d) ==
    [hist EXCEPT
        !.events = @ \o CallEvents(exec, kind, res, now, d),
        !.updates = IF kind = "update" THEN @ + 1 ELSE @,
        !.draws = IF kind = "draw" THEN @ + 1 ELSE @,
        !.calls = @ + 1,
        !.integrated = IF kind = "update" THEN @ + exec.deltaTime ELSE @,
        !.counted = IF hist.counting
                    THEN [@ EXCEPT
                             !.tps = IF kind = "update" THEN @ + 1 ELSE @,
                             !.fps = IF kind = "draw" THEN @ + 1 ELSE @]
                    ELSE @,
        !.failed = IF res.kind = "err" THEN @ + 1 ELSE @,
        !.logged = IF callLogs(exec, res) THEN @ + 1 ELSE @,
        !.step = [op |-> kind, d |-> d, res |-> res]]

UpdateCall(d, fails) ==
    /\ exec.pc = "tick"
    /\ needsUpdate(exec)
    /\ exec' = callUpdate(exec, Outcome("update", fails))
    /\ now' = now + d
    /\ hist' = Recorded("update", Outcome("update", fails), d)
    /\ UNCHANGED <<tasks, call>>

\* the end of Tick and the Frame phase; drawFn takes d and returns res
callDraw_inLoop(e, t, d, res) ==
    [e EXCEPT !.stats = [@ EXCEPT !.TickDuration = t - e.stats.TickStart,
                                  !.FrameStart = t,
                                  !.FrameDuration = d],
              !.currentFPS = @ + 1]

callDraw_skipsTasks(e, t, d, res) ==
    [e EXCEPT !.pc = "throttle",
              !.stats = [@ EXCEPT !.TickDuration = t - e.stats.TickStart,
                                  !.FrameStart = t,
                                  !.FrameDuration = d],
              !.currentFPS = @ + 1]

callDraw_preempted(e, t, d, res) ==
    LET next == afterCallback(e, res) IN
    IF e.interrupted
    THEN [e EXCEPT !.pc = "returned", !.ret = NilError]
    ELSE IF next.kind = "err"
    THEN [e EXCEPT !.pc = "returned", !.ret = next,
                   !.stats = [@ EXCEPT !.TickDuration = t - e.stats.TickStart,
                                       !.FrameStart = t],
                   !.currentFPS = @ + 1]
    ELSE [e EXCEPT !.pc = "tasks",
                   !.stats = [@ EXCEPT !.TickDuration = t - e.stats.TickStart,
                                       !.FrameStart = t,
                                       !.FrameDuration = d],
                   !.currentFPS = @ + 1]

callDraw(e, t, d, res) ==
    LET next == afterCallback(e, res) IN
    IF next.kind = "err"
    THEN [e EXCEPT !.pc = "returned", !.ret = next,
                   !.stats = [@ EXCEPT !.TickDuration = t - e.stats.TickStart,
                                       !.FrameStart = t],
                   !.currentFPS = @ + 1]
    ELSE [e EXCEPT !.pc = "tasks",
                   !.stats = [@ EXCEPT !.TickDuration = t - e.stats.TickStart,
                                       !.FrameStart = t,
                                       !.FrameDuration = d],
                   !.currentFPS = @ + 1]

DrawCall(d, fails) ==
    /\ exec.pc = "tick"
    /\ ~needsUpdate(exec)
    /\ exec' = callDraw(exec, now, d, Outcome("draw", fails))
    /\ now' = now + d
    /\ hist' = Recorded("draw", Outcome("draw", fails), d)
    /\ UNCHANGED <<tasks, call>>

\* the Tasks phase
totalSpend(st) == st.TickDuration + st.FrameDuration
freeTime(st) == st.Rate - totalSpend(st)

\* int(time.Second / totalSpend) panics when totalSpend is zero
TasksPanic ==
    /\ exec.pc = "tasks"
    /\ totalSpend(exec.stats) = 0
    /\ exec' = [exec EXCEPT !.pc = "panic"]
    /\ hist' = [hist EXCEPT !.step = [op |-> "panic"]]
    /\ UNCHANGED <<now, tasks, call>>

\* the Executor after Scheduler.Execute, called at t, has returned at
\* clock: Scheduler.Execute and the task functions return no value, and the
\* loop goes on to the Throttle phase whatever they did
afterTasks_stopsOnOverrun(e, t, clock) ==
    IF clock - t > freeTime(e.stats)
    THEN [e EXCEPT !.pc = "returned",
                   !.ret = ErrorOf("tasks", e.stats.CycleID, 0)]
    ELSE [e EXCEPT
            !.pc = "throttle",
            !.stats = [@ EXCEPT
                !.PossibleFPS = Second \div totalSpend(e.stats),
                !.TasksStart = t,
                !.TasksDuration = clock - t]]

afterTasks(e, t, clock) ==
    [e EXCEPT
        !.pc = "throttle",
        !.stats = [@ EXCEPT
            !.PossibleFPS = Second \div totalSpend(e.stats),
            !.TasksStart = t,
            !.TasksDuration = clock - t]]

TasksPhase(dur) ==
    /\ exec.pc = "tasks"
    /\ totalSpend(exec.stats) # 0
    /\ \E r \in {ExecuteResult(tasks, now, freeTime(exec.stats), dur)} :
       /\ exec' = afterTasks(exec, now, r.clock)
       /\ now' = r.clock
       /\ tasks' = r.tasks
       /\ call' = [op |-> "execute",
                   capacity |-> freeTime(exec.stats),
                   scored |-> ScoredAt(tasks, now),
                   trace |-> r.trace,
                   visits |-> r.visits]
       /\ hist' = [hist EXCEPT
                      !.events = Append(@, [kind |-> "tasks",
                                            cycle |-> exec.stats.CycleID,
                                            capacity |-> freeTime(exec.stats),
                                            at |-> now,
                                            until |-> r.clock]),
                      !.step = [op |-> "tasks"]]

\* the Throttle phase
throttleTimeOf_unclamped(e) ==
    LET timeTaken == e.stats.TickDuration + e.stats.FrameDuration
                         + e.stats.TasksDuration
        raw == e.stats.Rate - timeTaken
    IN  IF e.throttleCorrection > 0 THEN raw - e.throttleCorrection ELSE raw

throttleTimeOf_spendTwice(e) ==
    LET timeTaken == totalSpend(e.stats) + e.stats.TickDuration
                         + e.stats.FrameDuration + e.stats.TasksDuration
        raw == e.stats.Rate - timeTaken
        corrected == IF e.throttleCorrection > 0
                     THEN raw - e.throttleCorrection ELSE raw
    IN  IF corrected < 0 THEN 0 ELSE corrected

throttleTimeOf(e) ==
    LET timeTaken == e.stats.TickDuration + e.stats.FrameDuration
                         + e.stats.TasksDuration
        raw == e.stats.Rate - timeTaken
        corrected == IF e.throttleCorrection > 0
                     THEN raw - e.throttleCorrection ELSE raw
    IN  IF corrected < 0 THEN 0 ELSE corrected

\* time.Sleep(d) returns at once for d <= 0 and after d or more otherwise
Oversleeps(d) == IF d <= 0 THEN {0} ELSE 0 .. MaxOversleep

\* the Throttle phase when the cycle ends over later than its computed
\* sleep
Sleeps(over) ==
    /\ exec.pc = "throttle"
    /\ exec' = [exec EXCEPT !.pc = "end",
                            !.stats.ThrottleTime = throttleTimeOf(exec)]
    /\ now' = now + throttleTimeOf(exec) + over
    /\ hist' = [hist EXCEPT
                   !.events = Append(@, [kind |-> "sleep",
                                         cycle |-> exec.stats.CycleID,
                                         d |-> throttleTimeOf(exec),
                                         at |-> now,
                                         until |-> now + throttleTimeOf(exec)
                                                       + over]),
                   !.step = [op |-> "sleep", d |-> over]]
    /\ UNCHANGED <<tasks, call>>

Throttle(over) ==
    /\ over \in Oversleeps(throttleTimeOf(exec))
    /\ Sleeps(over)

\* the End phase: whether the counters are due for their reset at t
resetDue(e, t) == t > e.resetCountersAt

\* the history after the End phase at t (a reset starts a new count)
Counted(h, e, t) ==
    IF h.counting /\ resetDue(e, t)
    THEN [h EXCEPT !.counted = [tps |-> 0, fps |-> 0, resetAt |-> t,
                                resets |-> @.resets + 1]]
    ELSE h

endCycle_keepsCounting(e, t) ==
    LET reset == t > e.resetCountersAt IN
    [e EXCEPT
        !.pc = "top",
        !.stats = [@ EXCEPT
            !.CycleDuration = t - e.stats.CycleStart,
            !.GameDuration = t - e.stats.GameStart,
            !.CurrentTPS = IF reset THEN e.currentTPS ELSE @,
            !.CurrentFPS = IF reset THEN e.currentFPS ELSE @],
        !.resetCountersAt = IF reset THEN t + Second ELSE @]

endCycle(e, t) ==
    LET reset == t > e.resetCountersAt IN
    [e EXCEPT
        !.pc = "top",
        !.stats = [@ EXCEPT
            !.CycleDuration = t - e.stats.CycleStart,
            !.GameDuration = t - e.stats.GameStart,
            !.CurrentTPS = IF reset THEN e.currentTPS ELSE @,
            !.CurrentFPS = IF reset THEN e.currentFPS ELSE @],
        !.resetCountersAt = IF reset THEN t + Second ELSE @,
        !.currentTPS = IF reset THEN 0 ELSE @,
        !.currentFPS = IF reset THEN 0 ELSE @]

CycleEnd ==
    /\ exec.pc = "end"
    /\ exec' = endCycle(exec, now)
    /\ hist' = Counted(
                 IF exec.statsCollector
                 THEN [hist EXCEPT
                          !.events = Append(@, [kind |-> "stats",
                                                cycle |-> exec'.stats.CycleID,
                                                stats |-> exec'.stats,
                                                at |-> now,
                                                until |-> now]),
                          !.ended = @ + 1,
                          !.sinks = @ + 1,
                          !.step = [op |-> "end"]]
                 ELSE [hist EXCEPT !.ended = @ + 1, !.step = [op |-> "end"]],
                 exec, now)
    /\ UNCHANGED <<now, tasks, call>>

\* where the loop is (history): at a cycle boundary, in a cycle before its
\* first call, later in a cycle, or after Execute has ended
CancelPoint(e) ==
    IF e.pc = "top" THEN "boundary"
    ELSE IF e.pc = "tick" /\ e.requiredUpdate THEN "head"
    ELSE IF e.pc \in {"tick", "tasks", "throttle", "end"} THEN "inside"
    ELSE "after"

\* the caller cancels the context; the listener goroutine then sets the
\* flag.  The flag is written by the listener and read by the loop
\* condition with no synchronisation between them: a read that races with
\* the write returns the flag as it was before or after it, which are the
\* two orders of ListenerFire and the loop's read (CycleStart, LoopExit).
Cancel ==
    /\ exec.pc \notin {"idle", "none"}
    /\ exec.ctx = "live"
    /\ exec' = [exec EXCEPT !.ctx = "cancelled"]
    /\ hist' = IF hist.cancel = "off" THEN hist
               ELSE [hist EXCEPT !.cancel = CancelPoint(exec),
                                 !.step = [op |-> "cancel"]]
    /\ UNCHANGED <<now, tasks, call>>

ListenerFire_resetsCycle ==
    /\ exec.pc # "none"
    /\ exec.listener = "waiting"
    /\ exec.ctx = "cancelled"
    /\ exec' = [exec EXCEPT !.listener = "done", !.interrupted = TRUE,
                            !.stats.CycleID = 0]
    /\ UNCHANGED <<now, tasks, call, hist>>

ListenerFire ==
    /\ exec.pc # "none"
    /\ exec.listener = "waiting"
    /\ exec.ctx = "cancelled"
    /\ exec' = [exec EXCEPT !.listener = "done", !.interrupted = TRUE]
    /\ UNCHANGED <<now, tasks, call, hist>>

ExecNext ==
    \/ ExecuteCall
    \/ CycleStart
    \/ LoopExit
    \/ \E d \in UpdateTimes, fails \in BOOLEAN : UpdateCall(d, fails)
    \/ \E d \in DrawTimes, fails \in BOOLEAN : DrawCall(d, fails)
    \/ TasksPanic
    \/ \E dur \in TaskTimes : TasksPhase(dur)
    \/ \E over \in 0 .. MaxOversleep : Throttle(over)
    \/ CycleEnd
    \/ Cancel
    \/ ListenerFire

ExecSpec == ExecInit /\ [][ExecNext]_vars

\* ------------------------------------------------ the long steady schedule
\* One Executor without tasks at a low target rate, whose update and
\* draw callbacks take the same time in every cycle and whose cycles all
\* end the same time later than their computed sleep; it is never
\* cancelled and nothing fails.  The run is followed for DriftCycles
\* cycles.
DriftRates == {1, 2}
DriftErrors == 0 .. MaxDrift

DriftInit ==
    /\ now = 0
    /\ tasks = NewScheduler(<<>>)
    /\ call = NoCall
    /\ \E tps \in DriftRates : exec = NewExecutor(ErrBehaviorExit, tps, FALSE)
    /\ \E u \in UpdateTimes, d \in DrawTimes, over \in DriftErrors :
           hist = [NewHistory EXCEPT
                      !.fixed = [update |-> u, draw |-> d, over |-> over]]

DriftStart ==
    /\ exec.pc = "top"
    /\ ~exec.interrupted
    /\ exec.stats.CycleID < DriftCycles
    /\ exec' = startCycle(exec, now)
    /\ hist' = [hist EXCEPT !.events = <<>>, !.updates = 0, !.draws = 0,
                            !.step = [op |-> "start"]]
    /\ UNCHANGED <<now, tasks, call>>

DriftNext ==
    \/ ExecuteCall
    \/ DriftStart
    \/ UpdateCall(hist.fixed.update, FALSE)
    \/ DrawCall(hist.fixed.draw, FALSE)
    \/ TasksPanic
    \/ \E dur \in TaskTimes : TasksPhase(dur)
    \/ Sleeps(hist.fixed.over)
    \/ CycleEnd

DriftSpec == DriftInit /\ [][DriftNext]_vars

\* ------------------------------------------------ the cancellation schedule
\* the same Executor, at one target rate and with a stats collector set,
\* with the point of the cancellation kept in the history
CancelRates == {2}

CancelInit ==
    /\ now = 0
    /\ \E reg \in ExecRegistrations : tasks = NewScheduler(reg)
    /\ call = NoCall
    /\ \E behavior \in ErrBehaviors, tps \in CancelRates :
           exec = NewExecutor(behavior, tps, TRUE)
    /\ hist = [NewHistory EXCEPT !.cancel = "none"]

CancelSpec == CancelInit /\ [][ExecNext]_vars

\* the steps of the goroutine that called Execute
LoopStep ==
    \/ ExecuteCall
    \/ CycleStart
    \/ LoopExit
    \/ \E d \in UpdateTimes, fails \in BOOLEAN : UpdateCall(d, fails)
    \/ \E d \in DrawTimes, fails \in BOOLEAN : DrawCall(d, fails)
    \/ TasksPanic
    \/ \E dur \in TaskTimes : TasksPhase(dur)
    \/ \E over \in 0 .. MaxOversleep : Throttle(over)
    \/ CycleEnd

\* every callback, task function and sleep returns, so the calling
\* goroutine keeps taking its next step; the listener goroutine is
\* scheduled once the context is done.  Nothing obliges the caller to
\* cancel.
CancelLiveSpec ==
    CancelInit /\ [][ExecNext]_vars /\ WF_vars(LoopStep) /\ WF_vars(ListenerFire)

\* ------------------------------------------------ the rate-counter schedule
\* the same Executor at a target rate high enough for the catch-up loop to
\* stretch the cycles (a second counter reset falls within the cycles
\* followed), with the calls between two resets counted in the history
CounterRates == {3, 5}

CounterInit ==
    /\ now = 0
    /\ \E reg \in ExecRegistrations : tasks = NewScheduler(reg)
    /\ call = NoCall
    /\ \E behavior \in ErrBehaviors, tps \in CounterRates :
           exec = NewExecutor(behavior, tps, FALSE)
    /\ hist = [NewHistory EXCEPT !.counting = TRUE]

CounterSpec == CounterInit /\ [][ExecNext]_vars

\* ------------------------------------------------ the repeated schedule
\* Execute called again on the same Executor after it has returned, with a
\* fresh context.  The listener goroutine of an earlier call whose context
\* was not cancelled is still waiting on that context (stale); e.interrupted
\* is a field of the Executor and Execute does not assign it.  The
\* callbacks of this schedule take time whenever they are called (no
\* cycle measures zero) and time.Sleep returns on time.
ReExecRates == {2}

ReExecInit ==
    /\ now = 0
    /\ \E reg \in ExecRegistrations : tasks = NewScheduler(reg)
    /\ call = NoCall
    /\ \E behavior \in ErrBehaviors, tps \in ReExecRates :
           exec = NewExecutor(behavior, tps, TRUE)
                      @@ [stale |-> "none", recalls |-> 0]
    /\ hist = NewHistory

\* Execute, lines 54-74, on an Executor whose earlier call has returned
ExecuteAgain_clearsFlag ==
    /\ exec.pc = "returned"
    /\ exec.recalls < MaxRecalls
    /\ exec' = [initLoop(exec, now) EXCEPT
                   !.ret = [kind |-> "none"],
                   !.interrupted = FALSE,
                   !.stale = IF exec.listener = "waiting" THEN "waiting"
                             ELSE @,
                   !.recalls = @ + 1]
    /\ hist' = [hist EXCEPT
                   !.barred = @ \/ exec.ret.kind = "nil",
                   !.step = [op |-> "recall"]]
    /\ UNCHANGED <<now, tasks, call>>

ExecuteAgain ==
    /\ exec.pc = "returned"
    /\ exec.recalls < MaxRecalls
    /\ exec' = [initLoop(exec, now) EXCEPT
                   !.ret = [kind |-> "none"],
                   !.stale = IF exec.listener = "waiting" THEN "waiting"
                             ELSE @,
                   !.recalls = @ + 1]
    /\ hist' = [hist EXCEPT
                   !.barred = @ \/ exec.ret.kind = "nil",
                   !.step = [op |-> "recall"]]
    /\ UNCHANGED <<now, tasks, call>>

\* the context of an earlier call is cancelled and its listener sets the
\* flag
StaleListenerFire ==
    /\ exec.stale = "waiting"
    /\ exec' = [exec EXCEPT !.stale = "none", !.interrupted = TRUE]
    /\ UNCHANGED <<now, tasks, call, hist>>

ReExecNext ==
    \/ ExecuteCall
    \/ ExecuteAgain
    \/ CycleStart
    \/ LoopExit
    \/ \E d \in UpdateTimes \ {0}, fails \in BOOLEAN : UpdateCall(d, fails)
    \/ \E d \in DrawTimes \ {0}, fails \in BOOLEAN : DrawCall(d, fails)
    \/ \E dur \in TaskTimes : TasksPhase(dur)
    \/ Throttle(0)
    \/ CycleEnd
    \/ Cancel
    \/ ListenerFire
    \/ StaleListenerFire

\* the goroutine that called Execute keeps taking its next step
ReExecLiveSpec == ReExecInit /\ [][ReExecNext]_vars /\ WF_vars(LoopStep)

\* ------------------------------------------- the multi-goroutine Executor
\* The earlier Executor (src/frame/executor.go): Execute starts the
\* goroutines calculatePerformance, frameUpdate and (when ratePS > 0)
\* fixedUpdate and waits for an error on errChan or for the context.  The
\* three goroutines share e.mux, a sync.Mutex.  One action is one
\* goroutine's step from one point where another goroutine can matter (a
\* read of e.interrupted, Lock, Unlock, a channel operation, a timer) to
\* the next.  e.interrupted is written by Execute and read by the loops
\* with no synchronisation; a racing read returns the flag as it was before
\* or after the write, which are the two orders of the steps.  Durations
\* are followed only as far as line 131 needs: whether the frame's
\* totalSpend measured zero.
frameUpdate == "frameUpdate"
fixedUpdate == "fixedUpdate"
calculatePerformance == "calculatePerformance"
Goroutines == {frameUpdate, fixedUpdate, calculatePerformance}

\* ratePS as configured: fixedUpdate is started only when it is positive
RatesPS == {0, 50}

\* NewExecutor of executor.go, before Execute is called
NewMuxExecutor(behavior, ratePS) ==
    [pc |-> "multi",
     frameErrBehavior |-> behavior,
     ratePS |-> ratePS,
     interrupted |-> FALSE,
     mux |-> FALSE,              \* whether e.mux is locked
     errChan |-> <<>>,           \* make(chan error, 1)
     ctx |-> "live",
     main |-> "idle",            \* where the Execute call is
     ret |-> [kind |-> "none"],
     g |-> [x \in Goroutines |-> "none"],
                                 \* where each goroutine is
     crashed |-> FALSE]          \* the program has ended by a panic

MuxInit ==
    /\ now = 0
    /\ tasks = NewScheduler(<<>>)
    /\ call = NoCall
    /\ \E behavior \in ErrBehaviors, ratePS \in RatesPS :
           exec = NewMuxExecutor(behavior, ratePS)
    /\ hist = NoHistory

\* goroutine x is at point pc of its function and the program runs
At(x, pc) == exec.pc = "multi" /\ ~exec.crashed /\ exec.g[x] = pc

\* goroutine x goes on to point pc
Goes(x, pc) == [exec EXCEPT !.g[x] = pc]

\* Execute, lines 77-84: the channel is made and the goroutines started
MuxExecuteCall ==
    /\ exec.pc = "multi"
    /\ exec.main = "idle"
    /\ exec' = [exec EXCEPT
                   !.main = "select",
                   !.g = [x \in Goroutines |->
                             IF x = fixedUpdate /\ exec.ratePS <= 0
                             THEN "none" ELSE "loop"]]
    /\ UNCHANGED <<now, tasks, call, hist>>

\* the caller cancels the context
MuxCancel ==
    /\ exec.pc = "multi"
    /\ exec.main # "idle"
    /\ exec.ctx = "live"
    /\ exec' = [exec EXCEPT !.ctx = "cancelled"]
    /\ UNCHANGED <<now, tasks, call, hist>>

\* Execute, lines 87-89: an error is received
SelectErr ==
    /\ exec.pc = "multi"
    /\ ~exec.crashed
    /\ exec.main = "select"
    /\ Len(exec.errChan) > 0
    /\ exec' = [exec EXCEPT !.main = "returned",
                            !.interrupted = TRUE,
                            !.ret = Head(exec.errChan),
                            !.errChan = Tail(@)]
    /\ UNCHANGED <<now, tasks, call, hist>>

\* Execute, lines 90-92: the context is done
SelectDone ==
    /\ exec.pc = "multi"
    /\ ~exec.crashed
    /\ exec.main = "select"
    /\ exec.ctx = "cancelled"
    /\ exec' = [exec EXCEPT !.main = "returned",
                            !.interrupted = TRUE,
                            !.ret = NilError]
    /\ UNCHANGED <<now, tasks, call, hist>>

\* the loop condition of goroutine x (lines 99, 200, 222); next is where
\* its body starts
LoopCheck(x, next) ==
    /\ At(x, "loop")
    /\ exec' = Goes(x, IF exec.interrupted THEN "done" ELSE next)
    /\ UNCHANGED <<now, tasks, call, hist>>

\* e.mux.Lock() in goroutine x (lines 101, 203, 225): returns once the
\* mutex is free, and takes it
Lock_noWait(x, next) ==
    /\ At(x, "lock")
    /\ exec' = [Goes(x, next) EXCEPT !.mux = TRUE]
    /\ UNCHANGED <<now, tasks, call, hist>>

Lock(x, next) ==
    /\ At(x, "lock")
    /\ ~exec.mux
    /\ exec' = [Goes(x, next) EXCEPT !.mux = TRUE]
    /\ UNCHANGED <<now, tasks, call, hist>>

\* e.mux.Unlock() in goroutine x (lines 148, 216, 232)
Unlock(x, next) ==
    /\ At(x, "unlock")
    /\ exec' = [Goes(x, next) EXCEPT !.mux = FALSE]
    /\ UNCHANGED <<now, tasks, call, hist>>

\* what a callback of goroutine x returns
CallbackResult(x, fails) == IF fails THEN ErrorOf(x, 0, 1) ELSE NilError

\* a callback of goroutine x returns (lines 110-118, 206-212): on an error
\* that handleError passes on, the goroutine goes to send it; otherwise it
\* goes on to next
Callback(x, fails, next) ==
    /\ At(x, "update")
    /\ exec' = Goes(x, IF afterCallback(exec, CallbackResult(x, fails)).kind
                              = "err"
                       THEN "send" ELSE next)
    /\ UNCHANGED <<now, tasks, call, hist>>

\* errChannel <- next; break (lines 115-116, 209-210): the send waits for
\* room in the channel; the goroutine then leaves its loop and returns,
\* without having called Unlock
SendAndBreak(x) ==
    /\ At(x, "send")
    /\ Len(exec.errChan) < 1
    /\ exec' = [Goes(x, "done") EXCEPT
                   !.errChan = Append(@, CallbackResult(x, TRUE))]
    /\ UNCHANGED <<now, tasks, call, hist>>

\* frameUpdate, lines 121-143: the tasks, the throttle computation and
\* frameFinish; int(time.Second / totalSpend) at line 131 panics when the
\* frame's durations measured zero, which ends the program
FrameTasks(zeroSpend) ==
    /\ At(frameUpdate, "tasks")
    /\ exec' = IF zeroSpend THEN [exec EXCEPT !.crashed = TRUE]
               ELSE Goes(frameUpdate, "unlock")
    /\ UNCHANGED <<now, tasks, call, hist>>

\* frameUpdate, lines 151-153: the throttle sleep
FrameSleep ==
    /\ At(frameUpdate, "sleep")
    /\ exec' = Goes(frameUpdate, "loop")
    /\ UNCHANGED <<now, tasks, call, hist>>

\* fixedUpdate, line 202: the ticker fires; calculatePerformance, line 224:
\* the second is over
TimerFires(x) ==
    /\ At(x, "wait")
    /\ exec' = Goes(x, "lock")
    /\ UNCHANGED <<now, tasks, call, hist>>

\* calculatePerformance, lines 227-230: the counters are published and
\* zeroed
PerfSnapshot ==
    /\ At(calculatePerformance, "snapshot")
    /\ exec' = Goes(calculatePerformance, "unlock")
    /\ UNCHANGED <<now, tasks, call, hist>>

\* the steps of each goroutine
FrameStep ==
    \/ LoopCheck(frameUpdate, "lock")
    \/ Lock(frameUpdate, "update")
    \/ \E fails \in BOOLEAN : Callback(frameUpdate, fails, "tasks")
    \/ SendAndBreak(frameUpdate)
    \/ \E zeroSpend \in BOOLEAN : FrameTasks(zeroSpend)
    \/ Unlock(frameUpdate, "sleep")
    \/ FrameSleep

FixedStep ==
    \/ LoopCheck(fixedUpdate, "wait")
    \/ TimerFires(fixedUpdate)
    \/ Lock(fixedUpdate, "update")
    \/ \E fails \in BOOLEAN : Callback(fixedUpdate, fails, "unlock")
    \/ SendAndBreak(fixedUpdate)
    \/ Unlock(fixedUpdate, "loop")

PerfStep ==
    \/ LoopCheck(calculatePerformance, "wait")
    \/ TimerFires(calculatePerformance)
    \/ Lock(calculatePerformance, "snapshot")
    \/ PerfSnapshot
    \/ Unlock(calculatePerformance, "loop")

MuxNext ==
    \/ MuxExecuteCall
    \/ MuxCancel
    \/ SelectErr
    \/ SelectDone
    \/ FrameStep
    \/ FixedStep
    \/ PerfStep

MuxSpec == MuxInit /\ [][MuxNext]_vars

\* Every goroutine that can take a step is scheduled, timers fire, and a
\* goroutine waiting in Lock gets the mutex if it is free again and again
\* (sync.Mutex hands it to a starved waiter).  The callbacks return.
\* Nothing obliges the caller to cancel.
MuxLiveSpec ==
    /\ MuxInit /\ [][MuxNext]_vars
    /\ WF_vars(SelectErr \/ SelectDone)
    /\ \A x \in Goroutines :
           /\ WF_vars(LoopCheck(x, "lock") \/ LoopCheck(x, "wait"))
           /\ WF_vars(TimerFires(x))
           /\ SF_vars(\E next \in {"update", "snapshot"} : Lock(x, next))
           /\ WF_vars(\E next \in {"sleep", "loop"} : Unlock(x, next))
           /\ WF_vars(\E fails \in BOOLEAN, next \in {"tasks", "unlock"} :
                          Callback(x, fails, next))
           /\ WF_vars(SendAndBreak(x))
    /\ WF_vars(\E zeroSpend \in BOOLEAN : FrameTasks(zeroSpend))
    /\ WF_vars(FrameSleep)
    /\ WF_vars(PerfSnapshot)

\* ---------------------------------------------------------------- claims
SinceLastOf(id) == call.scored[id].sinceLast
AtLeastOf(id) == call.scored[id].runAtLeastOnceIn
AtMostOf(id) == call.scored[id].runAtMostOnceIn
TraceIdx == 1 .. TraceLen
TracedId(k) == call.trace[k].id

\* C1 (as stated): in every Execute call, whatever the capacity, a task
\* with now - lastRunAt >= runAtLeastOnceIn at scoring time is scored
\* CRITICAL and is run in that call.
C1_Original ==
    Called =>
        \A id \in TaskIds :
            SinceLastOf(id) >= AtLeastOf(id) => WasCritical(id) /\ Ran(id)

\* C1 (amended): in every Execute call, whatever the capacity, a task with
\* now - lastRunAt >= runAtLeastOnceIn and now - lastRunAt >= runAtMostOnceIn
\* at scoring time is scored CRITICAL and is run in that call.
C1_OverdueRuns ==
    Called =>
        \A id \in TaskIds :
            (/\ SinceLastOf(id) >= AtLeastOf(id)
             /\ SinceLastOf(id) >= AtMostOf(id))
                => WasCritical(id) /\ Ran(id)

\* a task that had run before is overdue, exactly at its deadline, and is
\* run in a call with no capacity
C1_Witness ==
    /\ Called
    /\ call.capacity <= 0
    /\ \E id \in TaskIds :
        /\ call.scored[id].runsCount > 0
        /\ SinceLastOf(id) = AtLeastOf(id)
        /\ SinceLastOf(id) >= AtMostOf(id)
        /\ Ran(id)

\* C2: when Execute is called again and again while the clock advances,
\* every registered task is run again and again, whatever the capacities.
LiveIds == UNION { DOMAIN reg : reg \in LiveRegistrations }

C2_StarvationFree == \A id \in LiveIds : []<>Ran(id)

\* a task that has run MaxRuns times or more is run in a call with no
\* capacity
C2_Witness ==
    /\ Called
    /\ call.capacity <= 0
    /\ \E i \in 1 .. Len(tasks) :
        /\ tasks[i].runsCount = MaxRuns
        /\ tasks[i].avgDuration > 0
        /\ Ran(tasks[i].id)

\* C3: a task with now - lastRunAt < runAtMostOnceIn at scoring time is
\* scored NOT_NEEDED, overdue or not, and is not run in that call.
C3_RateLimited ==
    Called =>
        \A id \in TaskIds :
            SinceLastOf(id) < AtMostOf(id) => WasNotNeeded(id) /\ ~Ran(id)

\* an overdue task inside its rate limit is left out of a call that has
\* capacity and runs another task
C3_Witness ==
    /\ Called
    /\ call.capacity > 0
    /\ TraceLen > 0
    /\ \E id \in TaskIds :
        /\ SinceLastOf(id) < AtMostOf(id)
        /\ SinceLastOf(id) >= AtLeastOf(id)
        /\ ~Ran(id)

\* C4: a run of a task that has run before starts at least runAtMostOnceIn
\* after the start of its previous run, and no task is run twice in one
\* Execute call.
C4_Spacing ==
    Called =>
        /\ \A k \in TraceIdx :
            call.scored[TracedId(k)].runsCount > 0 =>
                Sub(call.trace[k].at, call.scored[TracedId(k)].lastRunAt)
                    >= AtMostOf(TracedId(k))
        /\ \A j, k \in TraceIdx : j # k => TracedId(j) # TracedId(k)

\* a rate-limited task is run again exactly runAtMostOnceIn after its
\* previous run
C4_Witness ==
    /\ Called
    /\ \E k \in TraceIdx :
        /\ call.scored[TracedId(k)].runsCount > 0
        /\ AtMostOf(TracedId(k)) > 0
        /\ call.trace[k].at - call.scored[TracedId(k)].lastRunAt
               = AtMostOf(TracedId(k))

\* C5: in every Execute call every task scored CRITICAL is run, whatever
\* the capacity; no CRITICAL task runs after a non-critical one; and each
\* CRITICAL run takes its measured duration from the capacity.
C5_CriticalFirst ==
    Called =>
        /\ \A id \in TaskIds : WasCritical(id) => Ran(id)
        /\ \A j, k \in TraceIdx :
            (j < k /\ WasCritical(TracedId(k))) => WasCritical(TracedId(j))
        /\ \A k \in TraceIdx :
            WasCritical(TracedId(k)) =>
                call.trace[k].capAfter
                    = call.trace[k].capBefore - call.trace[k].duration

\* a CRITICAL run drives the capacity below zero while a task with a
\* continuous score waits
C5_Witness ==
    /\ Called
    /\ \E k \in TraceIdx :
        /\ WasCritical(TracedId(k))
        /\ call.trace[k].capBefore > 0
        /\ call.trace[k].capAfter < 0
    /\ \E id \in TaskIds : ~WasCritical(id) /\ ~WasNotNeeded(id)

\* C6: a task that has never run has the zero lastRunAt, is scored
\* CRITICAL and is run in the Execute call that first scores it, for every
\* configuration.
C6_FirstRunForced ==
    Called =>
        \A id \in TaskIds :
            call.scored[id].runsCount = 0 =>
                /\ call.scored[id].lastRunAt = ZeroTime
                /\ WasCritical(id)
                /\ Ran(id)

\* a never-run task whose rate limit exceeds its deadline is run in a call
\* with no capacity
C6_Witness ==
    /\ Called
    /\ call.capacity <= 0
    /\ \E id \in TaskIds :
        /\ call.scored[id].runsCount = 0
        /\ AtMostOf(id) > AtLeastOf(id)
        /\ Ran(id)

\* C7 (as stated): a task with runAtMostOnceIn <= now - lastRunAt <
\* runAtLeastOnceIn is scored ((now - lastRunAt) / runAtLeastOnceIn) x weight,
\* weight 0.75 / 1.0 / 1.25 for Low / Normal / High.
Weight(id) ==
    IF call.scored[id].priority = PriorityLow THEN 3
    ELSE IF call.scored[id].priority = PriorityNormal THEN 4
    ELSE 5

C7_Original ==
    Called =>
        \A id \in TaskIds :
            (/\ AtMostOf(id) <= SinceLastOf(id)
             /\ SinceLastOf(id) < AtLeastOf(id))
                => ScoreEQ(ScoreOf(id),
                           [num |-> SinceLastOf(id) * Weight(id),
                            den |-> AtLeastOf(id) * 4])

\* C8: the tasks run in one Execute call are run in non-increasing order
\* of the scores computed at the start of the call.
C8_ScoreOrder ==
    Called =>
        \A j, k \in TraceIdx :
            j < k => ScoreGE(ScoreOf(TracedId(j)), ScoreOf(TracedId(k)))

\* two tasks with different continuous scores are both run, the higher
\* first
C8_Witness ==
    /\ Called
    /\ \E j, k \in TraceIdx :
        /\ j < k
        /\ ~WasCritical(TracedId(j))
        /\ ScoreGT(ScoreOf(TracedId(j)), ScoreOf(TracedId(k)))

\* C9: no non-critical task is started with remaining capacity <= 0, and a
\* call with capacity <= 0 and no CRITICAL task runs nothing.
C9_NoBudgetNoRun ==
    Called =>
        /\ \A k \in TraceIdx :
            ~WasCritical(TracedId(k)) => call.trace[k].capBefore > 0
        /\ (call.capacity <= 0 /\ \A id \in TaskIds : ~WasCritical(id))
               => call.trace = <<>>

\* Execute(0) with no CRITICAL task and a waiting task of unknown cost runs
\* nothing
C9_Witness ==
    /\ Called
    /\ call.capacity = 0
    /\ \A id \in TaskIds : ~WasCritical(id)
    /\ \E id \in TaskIds :
        ~WasNotNeeded(id) /\ call.scored[id].avgDuration = 0
    /\ call.trace = <<>>

\* C10 (as stated): when a non-critical task of unknown cost (avgDuration
\* zero) is run, it is the only task run in that Execute call.
C10_Original ==
    Called =>
        \A k \in TraceIdx :
            (/\ ~WasCritical(TracedId(k))
             /\ call.scored[TracedId(k)].avgDuration <= 0)
                => TraceLen = 1

\* the tasks the loop reached in the last Execute call, in scan order
VisitIdx == IF Called THEN 1 .. Len(call.visits) ELSE {}
VisitedId(k) == call.visits[k].id
AvgOf(id) == call.scored[id].avgDuration
WasContinuous(id) == ~WasCritical(id) /\ ~WasNotNeeded(id)

\* the loop reached the task of visit k as a non-critical task of known
\* cost with capacity left
ReachedKnown(k) ==
    /\ WasContinuous(VisitedId(k))
    /\ AvgOf(VisitedId(k)) > 0
    /\ call.visits[k].capacity > 0

\* the tasks that waited with a continuous score in the last Execute call
Candidates == { id \in TaskIds : WasContinuous(id) }

\* C11: a non-critical task of known cost that the loop reaches with
\* capacity left is run if and only if its avgDuration is at most the
\* remaining capacity; after a task that does not fit the scan goes on to
\* the next task; and when no task is CRITICAL, all waiting tasks cost c,
\* every run takes c and the capacity has room for two of them but not
\* three, exactly the two highest-scored waiting tasks run.
C11_FitsOrSkipped ==
    Called =>
        /\ \A k \in VisitIdx :
            ReachedKnown(k) =>
                /\ Ran(VisitedId(k))
                       <=> AvgOf(VisitedId(k)) <= call.visits[k].capacity
                /\ AvgOf(VisitedId(k)) > call.visits[k].capacity
                       => (k = Len(tasks) \/ Len(call.visits) > k)
        /\ \A c \in 1 .. MaxCapacity :
            (/\ \A id \in TaskIds : ~WasCritical(id)
             /\ Cardinality(Candidates) >= 2
             /\ \A id \in Candidates : AvgOf(id) = c
             /\ \A k \in TraceIdx : call.trace[k].duration = c
             /\ 2 * c <= call.capacity
             /\ call.capacity < 3 * c)
                => /\ TraceLen = 2
                   /\ \A k \in TraceIdx, id \in Candidates :
                       ~Ran(id) => ScoreGE(ScoreOf(TracedId(k)), ScoreOf(id))

\* a task that does not fit is passed over and a lower-scored task that
\* fits is run after it in the same call
C11_Witness ==
    /\ Called
    /\ \E j, k \in VisitIdx :
        /\ j < k
        /\ ReachedKnown(j)
        /\ ~Ran(VisitedId(j))
        /\ ReachedKnown(k)
        /\ Ran(VisitedId(k))
        /\ ScoreGT(ScoreOf(VisitedId(j)), ScoreOf(VisitedId(k)))

\* what the run of task id in the last Execute call was measured at (0 when
\* the task was not run)
MeasuredOf(id) ==
    IF Ran(id)
    THEN call.trace[CHOOSE k \in TraceIdx : TracedId(k) = id].duration
    ELSE 0

\* C12: every run inside Execute of a task scored CRITICAL or of an
\* admitted task of known cost takes the duration measured for that run,
\* not the task's avgDuration, from the capacity: the first task is reached
\* with the capacity of the call, each later one with what the task before
\* it left; and a later non-critical task of known cost is admitted against
\* that remainder.
C12_MeasuredDeducted ==
    Called =>
        /\ \A k \in VisitIdx :
            call.visits[k].capacity =
                IF k = 1 THEN call.capacity
                ELSE IF WasCritical(VisitedId(k - 1))
                        \/ (ReachedKnown(k - 1) /\ Ran(VisitedId(k - 1)))
                THEN call.visits[k - 1].capacity - MeasuredOf(VisitedId(k - 1))
                ELSE call.visits[k - 1].capacity
        /\ \A k \in VisitIdx :
            (WasContinuous(VisitedId(k)) /\ AvgOf(VisitedId(k)) > 0) =>
                (Ran(VisitedId(k)) <=>
                    (/\ call.visits[k].capacity > 0
                     /\ AvgOf(VisitedId(k)) <= call.visits[k].capacity))

\* a CRITICAL run is measured at more than the task's avgDuration and
\* leaves too little for a waiting task that the capacity less the
\* avgDuration would have admitted
C12_Witness ==
    /\ Called
    /\ \E j, k \in VisitIdx :
        /\ k = j + 1
        /\ WasCritical(VisitedId(j))
        /\ AvgOf(VisitedId(j)) > 0
        /\ MeasuredOf(VisitedId(j)) > AvgOf(VisitedId(j))
        /\ WasContinuous(VisitedId(k))
        /\ AvgOf(VisitedId(k)) > 0
        /\ AvgOf(VisitedId(k))
               <= call.visits[j].capacity - AvgOf(VisitedId(j))
        /\ ~Ran(VisitedId(k))

\* C13: after N >= 1 runs each measured at exactly d, of a task that had
\* never run or whose avgDuration was d before these runs, avgDuration is d.
C13_ConstantConverges ==
    (/\ call.op = "run"
     /\ (call.runsBefore = 0 \/ call.avgBefore = call.d))
        => tasks[1].avgDuration = call.d

\* a task whose average had come to d through runs of other durations is
\* run at d several times more
C13_Witness ==
    /\ call.op = "run"
    /\ call.n >= 2
    /\ call.d > 0
    /\ call.runsBefore >= 2
    /\ call.avgBefore = call.d
    /\ tasks[1].runsCount = AvgRuns

\* ------------------------------------------------- claims on the Executor
\* a cycle is in progress, or Execute ended inside one
MidCycle ==
    \/ exec.pc \in {"tick", "tasks", "throttle", "end", "panic"}
    \/ (exec.pc = "returned" /\ exec.ret.kind = "err")

\* a cycle has run to its end and no later one has started
CycleComplete ==
    /\ hist.ended > 0
    /\ \/ exec.pc = "top"
       \/ (exec.pc = "returned" /\ exec.ret.kind = "nil")

\* the catch-up loop of the current cycle is over
UpdatesOver ==
    \/ exec.pc \in {"tasks", "throttle", "end", "panic"}
    \/ (exec.pc = "tick" /\ ~needsUpdate(exec))
    \/ (exec.pc = "returned" /\ exec.ret.kind = "err")
    \/ CycleComplete

\* the calls of the cycle, the logger's left out, by kind
IsCall(ev) == ev.kind # "log"
Calls == SelectSeq(hist.events, IsCall)
KindAt(k) == Calls[k].kind
CountOf(kind) == Cardinality({ k \in 1 .. Len(Calls) : KindAt(k) = kind })

\* C14: in every cycle of Executor.Execute the update callback is called at
\* least once, whatever deltaTime is (smaller than rateDuration included).
C14_UpdateEveryCycle ==
    UpdatesOver => hist.updates >= 1 /\ CountOf("update") = hist.updates

\* a cycle that started less than rateDuration after the one before it has
\* made its update call
C14_Witness ==
    /\ exec.pc = "tasks"
    /\ exec.stats.CycleID >= 2
    /\ exec.deltaTime < exec.stats.Rate
    /\ hist.updates = 1

\* C15: the draw callback is called exactly once in every cycle that gets
\* past its update calls (a cycle that Execute leaves at a failing update
\* call has none) and never more than once, however many update calls the
\* cycle made.
C15_DrawOncePerCycle ==
    /\ CountOf("draw") = hist.draws
    /\ hist.draws <= 1
    /\ (exec.pc \in {"tasks", "throttle", "end", "panic"} \/ CycleComplete)
           => hist.draws = 1
    /\ (exec.pc = "returned" /\ exec.ret.kind = "err")
           => hist.draws = (IF exec.ret.from = "draw" THEN 1 ELSE 0)
    /\ exec.pc = "tick" => hist.draws = 0

\* a completed cycle with two update calls has one draw call
C15_Witness ==
    /\ CycleComplete
    /\ hist.updates >= 2
    /\ hist.draws = 1

\* the place of a call in the order of a cycle
Rank(kind) ==
    IF kind = "update" THEN 1
    ELSE IF kind = "draw" THEN 2
    ELSE IF kind = "tasks" THEN 3
    ELSE IF kind = "sleep" THEN 4
    ELSE 5

\* C16: in every completed cycle the calls come in this order: the update
\* calls, the draw call, Scheduler.Execute, the throttle sleep, and then
\* the stats collector (when one is set), each of the last four exactly
\* once; in a cycle in progress the calls made so far are in that order.
C16_PhaseOrder ==
    /\ \A j, k \in 1 .. Len(Calls) :
           j < k => \/ Rank(KindAt(j)) < Rank(KindAt(k))
                    \/ (KindAt(j) = "update" /\ KindAt(k) = "update")
    /\ CycleComplete =>
           /\ CountOf("update") >= 1
           /\ CountOf("draw") = 1
           /\ CountOf("tasks") = 1
           /\ CountOf("sleep") = 1
           /\ CountOf("stats") = (IF exec.statsCollector THEN 1 ELSE 0)
    /\ CountOf("stats") = 1 => CountOf("sleep") = 1

\* a completed cycle with a catch-up update, a failing call that was
\* logged, and a call of the stats collector
C16_Witness ==
    /\ CycleComplete
    /\ exec.statsCollector
    /\ CountOf("update") >= 2
    /\ Len(hist.events) > Len(Calls)
    /\ KindAt(Len(Calls)) = "stats"

\* C17: CycleID is 0 before the loop and grows by exactly 1 at the start of
\* each cycle: it is the number of cycles that have ended, plus one while a
\* cycle is in progress, and every update call and every call of the stats
\* collector is given the id of its cycle, so that they see 1, 2, 3, ...
C17_CycleIds ==
    /\ exec.pc = "idle" => exec.stats.CycleID = 0
    /\ exec.pc # "idle" =>
           exec.stats.CycleID = hist.ended + (IF MidCycle THEN 1 ELSE 0)
    /\ \A k \in 1 .. Len(Calls) :
           KindAt(k) \in {"update", "stats"} =>
               Calls[k].cycle = hist.ended + (IF MidCycle THEN 1 ELSE 0)

\* the stats collector is called for the last of the cycles followed, after
\* an update call with the same id
C17_Witness ==
    /\ CycleComplete
    /\ hist.ended = MaxCycles
    /\ hist.sinks = MaxCycles
    /\ KindAt(1) = "update"
    /\ Calls[1].cycle = MaxCycles
    /\ KindAt(Len(Calls)) = "stats"
    /\ Calls[Len(Calls)].cycle = MaxCycles

\* the last call recorded
LastEvent == hist.events[Len(hist.events)]

\* C18: under the exit-on-error policy the first error returned by the
\* update or the draw callback ends the loop: Execute returns that same
\* error, and the failing call is the last call made (no update, draw,
\* task or stats-collector call follows it).
C18_ExitOnFirstError ==
    exec.frameErrBehavior = ErrBehaviorExit =>
        /\ hist.failed <= 1
        /\ hist.failed = 1 =>
               /\ exec.pc = "returned"
               /\ Len(hist.events) > 0
               /\ LastEvent.kind \in {"update", "draw"}
               /\ LastEvent.res.kind = "err"
               /\ exec.ret = LastEvent.res
        /\ exec.ret.kind = "err" => hist.failed = 1

\* Execute has returned the error of a catch-up update call of a later
\* cycle
C18_Witness ==
    /\ exec.frameErrBehavior = ErrBehaviorExit
    /\ exec.pc = "returned"
    /\ exec.ret.kind = "err"
    /\ exec.ret.from = "update"
    /\ exec.ret.cycle >= 2
    /\ hist.updates >= 2

\* the failing calls of the cycle, and those followed at once by the
\* logger's call with the same error
FailedAt ==
    { k \in 1 .. Len(hist.events) :
        hist.events[k].kind \in {"update", "draw"}
            /\ hist.events[k].res.kind = "err" }
LoggedAt ==
    { k \in 1 .. Len(hist.events) : hist.events[k].kind = "log" }

\* C19: under the log-and-continue policy every failure of the update or
\* the draw callback is passed to the logger exactly once, right after the
\* failing call, and Execute never returns an error; under the
\* exit-on-error policy the logger is never called.
C19_LogPolicy ==
    /\ exec.frameErrBehavior = ErrBehaviorLog =>
           /\ hist.logged = hist.failed
           /\ Cardinality(LoggedAt) = Cardinality(FailedAt)
           /\ \A k \in FailedAt :
                  /\ k + 1 \in LoggedAt
                  /\ hist.events[k + 1].err = hist.events[k].res
           /\ exec.ret.kind # "err"
    /\ exec.frameErrBehavior = ErrBehaviorExit =>
           hist.logged = 0 /\ LoggedAt = {}

\* every update and draw call of the cycles followed has failed and was
\* logged, and Execute has returned nil
C19_Witness ==
    /\ exec.frameErrBehavior = ErrBehaviorLog
    /\ exec.pc = "returned"
    /\ exec.ret.kind = "nil"
    /\ hist.ended = MaxCycles
    /\ hist.failed = hist.calls
    /\ hist.logged = hist.calls

\* a step that makes a call of the update or the draw callback which fails
FailingCallStep ==
    /\ hist' # hist
    /\ hist'.step.op \in {"update", "draw"}
    /\ hist'.step.res.kind = "err"

\* C20: under the log-and-continue policy a failing update or draw call
\* leaves the Executor (phase, cycle id, catch-up accounting, stats,
\* throttle correction) and the clock exactly as the same call would have
\* left them had it succeeded in the same time, so that a run whose
\* callbacks fail goes through the same phases and computes the same
\* pacing as a run with the same timings whose callbacks succeed.
C20_PacingUnaffected ==
    [][(exec.frameErrBehavior = ErrBehaviorLog /\ FailingCallStep) =>
          /\ exec' = (IF hist'.step.op = "update"
                      THEN callUpdate(exec, NilError)
                      ELSE callDraw(exec, now, hist'.step.d, NilError))
          /\ now' = now + hist'.step.d
          /\ tasks' = tasks]_vars

\* every update and draw call of the cycles followed has failed, catch-up
\* updates among them
C20_Witness ==
    /\ exec.frameErrBehavior = ErrBehaviorLog
    /\ CycleComplete
    /\ hist.ended = MaxCycles
    /\ hist.failed = hist.calls
    /\ hist.calls > 2 * MaxCycles

NextPhase ==
    [pc \in {"tick", "tasks", "throttle", "end"} |->
        CASE pc = "tick" -> "tasks"
          [] pc = "tasks" -> "throttle"
          [] pc = "throttle" -> "end"
          [] pc = "end" -> "top"]

\* C22: cancellation is not preemptive.  Execute returns nil only from the
\* loop condition at a cycle boundary, with the flag set: every cycle that
\* was started has then run to its end, its sleep and its stats-collector
\* call included, whatever point of the cycle the context was cancelled
\* at.  Inside a cycle the loop moves from each phase to the next one,
\* cancelled or not (it leaves the cycle early only by returning a
\* callback's error or in the division of the Tasks phase).  Once Execute
\* has returned, no further cycle starts and no further call is made.
C22_NotPreemptive ==
    /\ [](exec.ret.kind = "nil" =>
            /\ exec.interrupted
            /\ hist.ended = exec.stats.CycleID
            /\ exec.statsCollector => hist.sinks = hist.ended
            /\ hist.ended > 0 =>
                   /\ Len(Calls) >= 5
                   /\ KindAt(Len(Calls) - 3) = "draw"
                   /\ KindAt(Len(Calls) - 2) = "tasks"
                   /\ KindAt(Len(Calls) - 1) = "sleep"
                   /\ KindAt(Len(Calls)) = "stats")
    /\ [][ /\ (exec.ret.kind = "none" /\ exec'.ret.kind = "nil") =>
                 exec.pc = "top" /\ exec.interrupted
           /\ (exec.pc \in DOMAIN NextPhase /\ exec'.pc # exec.pc) =>
                 \/ exec'.pc = NextPhase[exec.pc]
                 \/ exec'.pc = "returned" /\ exec'.ret.kind = "err"
                 \/ exec.pc = "tasks" /\ exec'.pc = "panic"
           /\ exec.pc = "returned" =>
                 /\ exec'.pc = "returned"
                 /\ exec'.stats = exec.stats
                 /\ exec'.ret = exec.ret
                 /\ hist'.calls = hist.calls
                 /\ hist'.sinks = hist.sinks ]_vars

\* the context was cancelled at the head of the first cycle, before its
\* first update call; that cycle made its calls, slept and called the
\* stats collector, and no second cycle started
C22_Witness ==
    /\ hist.cancel = "head"
    /\ exec.pc = "returned"
    /\ exec.ret.kind = "nil"
    /\ exec.stats.CycleID = 1
    /\ hist.ended = 1
    /\ hist.sinks = 1
    /\ hist.calls >= 2
    /\ exec.stats.ThrottleTime > 0

\* the context was cancelled while Execute was running
CancelledRunning == hist.cancel \in {"boundary", "head", "inside"}

\* C23: once the context passed to Executor.Execute is cancelled, and
\* provided every callback returns, Execute eventually returns nil.  It is
\* stated for the log-and-continue policy, under which no error of a
\* callback ends the loop (under exit-on-error a callback failing in the
\* rest of the cycle makes Execute return that error first).
C23_Original ==
    (exec.frameErrBehavior = ErrBehaviorLog /\ CancelledRunning)
        ~> (exec.pc = "returned" /\ exec.ret.kind = "nil")

\* the cycle in progress has computed its ThrottleTime
Throttled == exec.pc = "end"

\* the part of the late start that the Throttle phase takes back
positiveCorrection(e) ==
    IF e.throttleCorrection > 0 THEN e.throttleCorrection ELSE 0

\* C24 as stated: in a cycle whose update and draw cost, taken together,
\* is below the per-cycle budget rateDuration, the reported ThrottleTime
\* is greater than 0.
C24_Original ==
    (Throttled /\ totalSpend(exec.stats) < exec.stats.Rate) =>
        exec.stats.ThrottleTime > 0

\* C24, amended: in a cycle whose update, draw and task durations plus the
\* positive throttle correction stay below rateDuration, the reported
\* ThrottleTime is greater than 0 (it is what is left of rateDuration).
C24_ThrottlePositive ==
    (Throttled /\ totalSpend(exec.stats) + exec.stats.TasksDuration
                      + positiveCorrection(exec) < exec.stats.Rate) =>
        /\ exec.stats.ThrottleTime > 0
        /\ hist.events[Len(hist.events)].kind = "sleep"
        /\ hist.events[Len(hist.events)].d = exec.stats.ThrottleTime

\* a later cycle that ran an update, a draw and a task within the budget
\* and had time left to sleep
C24_Witness ==
    /\ Throttled
    /\ exec.stats.CycleID >= 2
    /\ totalSpend(exec.stats) > 0
    /\ exec.stats.TasksDuration > 0
    /\ exec.stats.ThrottleTime > 0
    /\ exec.stats.ThrottleTime < exec.stats.Rate

\* how far after its ideal start gameStart + (n - 1) * rateDuration the
\* cycle in progress started
StartError ==
    exec.stats.CycleStart
        - (exec.stats.GameStart + ((exec.stats.CycleID - 1) * exec.stats.Rate))

\* the cycles fit the budget: the work of a cycle, the fixed timing error
\* and the microsecond the correction is rounded to fit in rateDuration
FitsBudget ==
    hist.fixed.update + hist.fixed.draw + hist.fixed.over + Us(1)
        <= exec.stats.Rate

\* C25: drift stays bounded.  When every cycle ends a fixed time later
\* than its computed sleep and the cycles fit the budget, each cycle, up to
\* the last one followed, starts no earlier than its ideal start
\* gameStart + (n - 1) * rateDuration and less than the timing error plus
\* one microsecond after it: a bound that does not depend on n.
C25_DriftBounded ==
    (exec.pc \in {"tick", "tasks", "throttle", "end"} /\ FitsBudget) =>
        /\ StartError >= 0
        /\ StartError < hist.fixed.over + Us(1)

\* the last cycle followed, under a timing error of a fraction of a
\* microsecond: it started late, the correction had taken back whole
\* microseconds in earlier cycles
C25_Witness ==
    /\ exec.pc = "end"
    /\ exec.stats.CycleID = DriftCycles
    /\ FitsBudget
    /\ hist.fixed.over > 0
    /\ hist.fixed.over < Us(1)
    /\ StartError > 0
    /\ exec.stats.ThrottleTime > 0

\* the wall-clock time the cycles started so far cover: what lastSyncAt
\* has advanced by since the loop state was initialised
CoveredTime == exec.lastSyncAt - (exec.stats.GameStart - exec.stats.Rate)

\* C26 as stated: integrating the DeltaTime handed to the update callback
\* is rate-independent: once the update calls of a cycle are over, the
\* DeltaTime of all update calls made so far adds up to the wall-clock
\* time the cycles cover, however many catch-up updates there were.
C26_Original ==
    (exec.pc # "idle" /\ UpdatesOver) => hist.integrated = CoveredTime

\* the step of the cancellation listener goroutine
ListenerStep == exec.listener = "waiting" /\ exec'.listener = "done"

\* C27: in the single-threaded Executor.Execute the update, draw, task
\* and stats-collector calls of a cycle run one after the other, each
\* starting when the one before has returned (the logger is called inside
\* the failing call's turn); no call is made in a step of the listener
\* goroutine, and that step writes the interrupted flag and nothing else:
\* the stats, the loop's position and variables, the task list and the
\* clock are as before.
C27_SingleThreaded ==
    /\ [](exec.pc \notin {"none", "idle"} =>
            /\ \A k \in 1 .. Len(Calls) :
                   /\ Calls[k].at <= Calls[k].until
                   /\ Calls[k].until <= now
                   /\ k > 1 => Calls[k - 1].until <= Calls[k].at
            /\ \A k \in 1 .. Len(hist.events) :
                   hist.events[k].kind = "log" =>
                       /\ k > 1
                       /\ hist.events[k - 1].kind \in {"update", "draw"}
                       /\ hist.events[k - 1].res = hist.events[k].err)
    /\ [][ListenerStep =>
              /\ exec'.interrupted
              /\ [exec' EXCEPT !.interrupted = exec.interrupted,
                               !.listener = exec.listener] = exec
              /\ tasks' = tasks
              /\ hist' = hist
              /\ call' = call
              /\ now' = now]_vars

\* the listener has set the flag while a later cycle was in progress (no
\* cycle starts with the flag set), and that cycle has gone on to run a
\* task
C27_Witness ==
    /\ exec.pc = "throttle"
    /\ exec.listener = "done"
    /\ exec.interrupted
    /\ Len(Calls) >= 3
    /\ KindAt(Len(Calls)) = "tasks"
    /\ exec.stats.TasksDuration > 0
    /\ exec.stats.CycleID >= 2

\* the task has been scored and neither sentinel branch was taken
ScoredContinuous ==
    /\ call.op = "score"
    /\ ~tooOften(tasks[1], call.sinceLast)
    /\ ~overdue(tasks[1], call.sinceLast)

ScoreZero == [num |-> 0, den |-> 1]
ScoreMax == [num |-> 5, den |-> 4]

RECURSIVE SpentFrom(_)
SpentFrom(k) ==
    IF k > TraceLen THEN 0 ELSE call.trace[k].duration + SpentFrom(k + 1)

\* the position of task id in the trace of the last Execute call
RunOf(id) == CHOOSE k \in TraceIdx : TracedId(k) = id

\* C29: every run of a task sets lastRunAt to the start time of that run
\* (the clock when the task function was called, after the runs before it
\* in the same Execute call), sets avgDuration to (avgDuration x runsCount
\* + duration) / (runsCount + 1) with the duration measured for that run,
\* and increments runsCount by exactly 1; a task that was not run keeps
\* all three.
C29_RunUpdatesStats ==
    Called =>
        \A i \in 1 .. Len(tasks) :
            LET id == tasks[i].id
                before == call.scored[id]
            IN  IF Ran(id)
                THEN /\ tasks[i].lastRunAt = call.trace[RunOf(id)].at
                     /\ tasks[i].lastRunAt = now - SpentFrom(RunOf(id))
                     /\ tasks[i].avgDuration =
                            ((before.avgDuration * before.runsCount)
                                 + call.trace[RunOf(id)].duration)
                                \div (before.runsCount + 1)
                     /\ tasks[i].runsCount = before.runsCount + 1
                ELSE /\ tasks[i].lastRunAt = before.lastRunAt
                     /\ tasks[i].avgDuration = before.avgDuration
                     /\ tasks[i].runsCount = before.runsCount

\* two tasks were run in one call, the second after the first had taken
\* time, and it was the second run of a task whose first run had been
\* measured at another duration
C29_Witness ==
    /\ Called
    /\ TraceLen >= 2
    /\ call.trace[1].duration > 0
    /\ call.trace[2].at > call.trace[1].at
    /\ \E k \in TraceIdx :
           /\ call.scored[TracedId(k)].runsCount = 1
           /\ call.scored[TracedId(k)].avgDuration # call.trace[k].duration

\* what the calls of kind kind of the cycle in progress took together, by
\* the clock at which each was made and at which it returned
RECURSIVE TookFrom(_, _)
TookFrom(kind, k) ==
    IF k > Len(Calls) THEN 0
    ELSE (IF KindAt(k) = kind THEN Calls[k].until - Calls[k].at ELSE 0)
             + TookFrom(kind, k + 1)

Took(kind) == TookFrom(kind, 1)

\* the update, draw and task calls of the cycle, together
CycleWork == Took("update") + Took("draw") + Took("tasks")

Max0(x) == IF x > 0 THEN x ELSE 0

\* C30: in every cycle that reaches its Throttle phase, ThrottleTime =
\* max(0, rateDuration - (update + draw + tasks duration)
\*           - max(0, throttleCorrection)),
\* the durations being those of the cycle's calls; it is never negative,
\* never exceeds rateDuration, it is what the loop then asks time.Sleep
\* for, and it is 0 whenever the cycle's work reached or exceeded
\* rateDuration.
C30_ThrottleFormula ==
    Throttled =>
        /\ exec.stats.ThrottleTime =
               Max0(exec.stats.Rate - CycleWork
                        - Max0(exec.throttleCorrection))
        /\ exec.stats.ThrottleTime >= 0
        /\ exec.stats.ThrottleTime <= exec.stats.Rate
        /\ KindAt(Len(Calls)) = "sleep"
        /\ Calls[Len(Calls)].d = exec.stats.ThrottleTime
        /\ CycleWork >= exec.stats.Rate => exec.stats.ThrottleTime = 0

\* a cycle that started late (positive throttleCorrection) and whose work
\* went past rateDuration: no sleep
C30_Witness ==
    /\ Throttled
    /\ exec.throttleCorrection > 0
    /\ CycleWork > exec.stats.Rate
    /\ exec.stats.ThrottleTime = 0

\* the cycle in progress (or the last one) has got past its draw call
\* without Execute returning
PastFrame ==
    \/ exec.pc \in {"panic", "throttle", "end"}
    \/ CycleComplete

\* the Scheduler.Execute call of the cycle
TasksCall == Calls[CHOOSE k \in 1 .. Len(Calls) : KindAt(k) = "tasks"]

\* the capacity the cycle's update and draw calls leave
CapacityLeft == exec.stats.Rate - (Took("update") + Took("draw"))

\* the tasks run by the last Scheduler.Execute call were all scored
\* CRITICAL
OnlyCriticalRan == \A k \in 1 .. TraceLen : WasCritical(call.trace[k].id)

\* C31 (as stated): in every cycle, once its update and draw calls have
\* returned without ending Execute, Scheduler.Execute is called exactly
\* once, with capacity = rateDuration - (update duration + draw duration)
\* of that cycle; when that value is <= 0 only tasks scored CRITICAL run in
\* that cycle.
C31_Original ==
    PastFrame =>
        /\ CountOf("tasks") = 1
        /\ TasksCall.capacity = CapacityLeft
        /\ (CapacityLeft <= 0 => OnlyCriticalRan)

\* a step at which the counters were reset
ResetStep == hist'.counted.resets = hist.counted.resets + 1

\* a step at which a published rate changed
PublishedChange ==
    \/ exec'.stats.CurrentTPS # exec.stats.CurrentTPS
    \/ exec'.stats.CurrentFPS # exec.stats.CurrentFPS

\* C32: the published CurrentTPS and CurrentFPS change only at a counter
\* reset (after Execute has set them to the target rate); a reset comes
\* more than a second after the previous one (or the loop start); at a
\* reset CurrentTPS is the number of update calls and CurrentFPS the number
\* of draw calls made since the previous reset (or the loop start), and
\* both running counters restart from 0, so that at all times they hold the
\* calls made since; before the first reset both published rates equal the
\* target rate.
C32_CounterReset ==
    /\ [](exec.pc # "idle" =>
             /\ exec.currentTPS = hist.counted.tps
             /\ exec.currentFPS = hist.counted.fps
             /\ (hist.counted.resets = 0 =>
                    /\ exec.stats.CurrentTPS = exec.targetTPS
                    /\ exec.stats.CurrentFPS = exec.targetTPS))
    /\ [][/\ (PublishedChange /\ exec.pc # "idle") => ResetStep
          /\ ResetStep =>
                /\ now - hist.counted.resetAt > Second
                /\ exec'.stats.CurrentTPS = hist.counted.tps
                /\ exec'.stats.CurrentFPS = hist.counted.fps
                /\ exec'.currentTPS = 0
                /\ exec'.currentFPS = 0]_vars

\* a second reset has published other numbers of update and of draw calls
\* than the first, and the loop has made calls since
C32_Witness ==
    /\ hist.counted.resets = 2
    /\ exec.stats.CurrentTPS # exec.stats.CurrentFPS
    /\ exec.stats.CurrentTPS # exec.targetTPS
    /\ exec.pc = "top"

\* what the update and draw calls of the cycle took together
CycleSpend == Took("update") + Took("draw")

\* q is 1 second divided by spend, by integer division
IsQuotient(q, spend) == q * spend <= Second /\ Second < (q + 1) * spend

\* C33 (as stated): in every cycle, once its update and draw calls have
\* returned without ending Execute, PossibleFPS is 1 second divided by
\* (update duration + draw duration) of that cycle, by integer division,
\* for every pair of durations the callbacks can produce.
C33_Original ==
    PastFrame => IsQuotient(exec.stats.PossibleFPS, CycleSpend)

\* the scored task's rate limit is not shorter than its deadline
Misconfigured == tasks[1].runAtMostOnceIn >= tasks[1].runAtLeastOnceIn

\* C34: for a task configured with runAtMostOnceIn >= runAtLeastOnceIn,
\* calculateTaskPriority never returns a continuous score: it returns
\* NOT_NEEDED while the task last ran less than runAtMostOnceIn ago and
\* CRITICAL from then on, so the only score with which the task can be run
\* is the forced CRITICAL.
C34_MisconfiguredSentinel ==
    (call.op = "score" /\ Misconfigured) =>
        /\ ~IsNaN(call.score)
        /\ \/ ScoreEQ(call.score, runPriorityNotNeed)
           \/ ScoreEQ(call.score, runPriorityCritical)
        /\ ScoreEQ(call.score, runPriorityNotNeed)
               <=> call.sinceLast < tasks[1].runAtMostOnceIn
        /\ ScoreEQ(call.score, runPriorityCritical)
               <=> call.sinceLast >= tasks[1].runAtMostOnceIn

\* a task whose deadline has passed but whose longer rate limit has not:
\* NOT_NEEDED
C34_Witness ==
    /\ call.op = "score"
    /\ tasks[1].runAtMostOnceIn > tasks[1].runAtLeastOnceIn
    /\ tasks[1].runAtLeastOnceIn > 0
    /\ call.sinceLast >= tasks[1].runAtLeastOnceIn
    /\ call.sinceLast < tasks[1].runAtMostOnceIn
    /\ ScoreEQ(call.score, runPriorityNotNeed)

\* the update calls a cycle with deltaTime d makes at rateDuration r
UpdatesDue(d, r) ==
    IF d <= 2 * r THEN 1 ELSE ((d + r - 1) \div r) - 1

\* the catch-up loop of the cycle has run to its end
CatchUpDone ==
    UpdatesOver /\ ~(exec.pc = "returned" /\ exec.ret.kind = "err"
                         /\ exec.ret.from = "update")

\* a step at which a cycle starts
StartStep == hist'.step.op = "start" /\ hist'.step # hist.step

\* C35: in a cycle with deltaTime d > 0 and rateDuration R whose catch-up
\* loop runs to its end, the update callback is invoked exactly once when
\* d <= 2R and exactly ceil(d / R) - 1 times when d > 2R (never more, in a
\* cycle Execute leaves at a failing update call); updateDelta is set to
\* R + d at the start of every cycle, whatever the catch-up loop of the
\* cycle before left in it.
C35_CatchUpCount ==
    /\ [](((MidCycle \/ CycleComplete) /\ exec.deltaTime > 0) =>
             /\ hist.updates <= UpdatesDue(exec.deltaTime, exec.stats.Rate)
             /\ (CatchUpDone =>
                    hist.updates = UpdatesDue(exec.deltaTime, exec.stats.Rate)))
    /\ [][StartStep =>
             /\ exec'.deltaTime = now - exec.lastSyncAt
             /\ exec'.updateDelta = exec'.stats.Rate + exec'.deltaTime]_vars

\* a cycle that started more than three rateDurations after the one before
\* it has made its three or more update calls and run to its end, its
\* catch-up loop has left a remainder, and another cycle is to follow
C35_Witness ==
    /\ exec.pc = "top"
    /\ ~exec.interrupted
    /\ exec.stats.CycleID = 2
    /\ hist.updates >= 3
    /\ exec.deltaTime > 3 * exec.stats.Rate
    /\ exec.updateDelta > 0
    /\ exec.updateDelta < exec.stats.Rate

\* the update calls of the cycle in progress (or of the last one)
UpdateEvents == SelectSeq(hist.events, LAMBDA ev : ev.kind = "update")

\* C36: every update call made within one cycle, catch-up calls included,
\* is handed the same TickStats: the CycleID of the current cycle and, as
\* DeltaTime, the deltaTime measured at the start of that cycle, which is
\* the time between the start of the previous cycle and the start of this
\* one (rateDuration for the first cycle, which has none before it), not
\* the fixed rateDuration.
C36_SameTickStats ==
    /\ [](\A k \in 1 .. Len(UpdateEvents) :
             /\ UpdateEvents[k].cycle = exec.stats.CycleID
             /\ UpdateEvents[k].deltaTime = exec.deltaTime
             /\ UpdateEvents[k].deltaTime = UpdateEvents[1].deltaTime)
    /\ [][StartStep =>
             exec'.deltaTime =
                 IF exec'.stats.CycleID = 1 THEN exec'.stats.Rate
                 ELSE exec'.stats.CycleStart - exec.stats.CycleStart]_vars

\* a cycle that started late has made three update calls, each handed a
\* DeltaTime of more than three rateDurations
C36_Witness ==
    /\ Len(UpdateEvents) = 3
    /\ exec.stats.CycleID >= 2
    /\ UpdateEvents[3].deltaTime > 3 * exec.stats.Rate
    /\ UpdateEvents[1].at < UpdateEvents[3].at

\* the task list holds each task of the registration reg exactly once, as
\* it was configured
PermutationOf(reg) ==
    /\ Len(tasks) = Len(reg)
    /\ \A id \in 1 .. Len(reg) :
           Cardinality({ i \in 1 .. Len(tasks) : tasks[i].id = id }) = 1
    /\ \A i \in 1 .. Len(tasks) :
           /\ tasks[i].id \in 1 .. Len(reg)
           /\ tasks[i].priority = reg[tasks[i].id].priority
           /\ tasks[i].runAtLeastOnceIn = reg[tasks[i].id].runAtLeastOnceIn
           /\ tasks[i].runAtMostOnceIn = reg[tasks[i].id].runAtMostOnceIn
           /\ tasks[i].taskFn = reg[tasks[i].id].taskFn

\* C37: Scheduler.Execute leaves lastRunAt, avgDuration and runsCount of
\* every task it does not run unchanged, and never adds, removes or
\* duplicates a registered task: after any sequence of Execute calls the
\* task list is a permutation of the tasks registered at construction.
C37_TaskSetKept ==
    /\ \E reg \in Registrations : PermutationOf(reg)
    /\ Called =>
           \A i \in 1 .. Len(tasks) :
               ~Ran(tasks[i].id) =>
                   /\ tasks[i].lastRunAt = call.scored[tasks[i].id].lastRunAt
                   /\ tasks[i].avgDuration
                          = call.scored[tasks[i].id].avgDuration
                   /\ tasks[i].runsCount = call.scored[tasks[i].id].runsCount

\* after a call that ran one task and left alone another that had run
\* before, the list is no longer in registration order
C37_Witness ==
    /\ Called
    /\ TraceLen >= 1
    /\ \E i \in 1 .. Len(tasks) :
           /\ ~Ran(tasks[i].id)
           /\ tasks[i].runsCount >= 1
    /\ \E i \in 1 .. Len(tasks) : tasks[i].id # i

\* goroutine x is inside its section: between its Lock and its Unlock
InSection(x) ==
    /\ exec.pc = "multi"
    /\ exec.g[x] \in {"update", "send", "tasks", "snapshot", "unlock"}

\* C38: in the multi-goroutine Executor the main update callback with its
\* task and stats phase (frameUpdate), the fixed update callback
\* (fixedUpdate) and the once-per-second counter snapshot
\* (calculatePerformance) never execute at the same time: each runs only
\* while e.mux is locked, and no two goroutines are inside these sections
\* at once.
C38_MutualExclusion ==
    \A x \in Goroutines :
        InSection(x) =>
            /\ exec.mux
            /\ \A y \in Goroutines \ {x} : ~InSection(y)

\* frameUpdate is in its task and stats phase while fixedUpdate and
\* calculatePerformance both wait in Lock
C38_Witness ==
    /\ exec.pc = "multi"
    /\ exec.g[frameUpdate] = "tasks"
    /\ exec.g[fixedUpdate] = "lock"
    /\ exec.g[calculatePerformance] = "lock"

\* every goroutine Execute started has returned (or the program has ended)
AllTerminated ==
    \/ exec.crashed
    \/ \A x \in Goroutines : exec.g[x] \in {"none", "done"}

\* Execute has returned
MuxReturned == exec.pc = "multi" /\ exec.main = "returned"

\* e.mux is held
MuxHeld == exec.pc = "multi" /\ exec.mux /\ ~exec.crashed

\* C39 (as stated): in the multi-goroutine Executor every acquisition of
\* e.mux is followed by its release, on every path; and after Execute has
\* returned, by error or by cancellation, every goroutine it started
\* eventually terminates (none stays blocked on the mutex).
C39_Original ==
    /\ MuxHeld ~> ~MuxHeld
    /\ MuxReturned ~> AllTerminated

\* C40: the interrupted flag of the single-threaded Executor is set by a
\* cancellation listener and never reset; after an Execute call has ended
\* by cancellation (it returned nil), every later Execute call on the same
\* Executor, with a fresh uncancelled context too, runs zero cycles: it
\* makes no update, draw, task or stats-collector call, takes no time, and
\* returns nil.
C40_InterruptedSticks ==
    /\ (hist.barred /\ exec.pc = "top")
           ~> (exec.pc = "returned" /\ exec.ret.kind = "nil")
    /\ [](/\ (exec.pc = "returned" /\ exec.ret.kind = "nil")
                 => exec.interrupted
          /\ hist.barred =>
                 /\ exec.interrupted
                 /\ exec.pc \in {"top", "returned"}
                 /\ exec.stats.CycleID = 0
                 /\ (exec.pc = "returned" => exec.ret.kind = "nil"))
    /\ [][/\ exec.interrupted => exec'.interrupted
          /\ (~exec.interrupted /\ exec'.interrupted) =>
                 \/ (exec.listener = "waiting" /\ exec'.listener = "done")
                 \/ (exec.stale = "waiting" /\ exec'.stale = "none")
          /\ (hist.barred \/ hist'.barred) =>
                 /\ UNCHANGED <<now, tasks, call>>
                 /\ hist'.events = hist.events
                 /\ hist'.calls = hist.calls
                 /\ hist'.sinks = hist.sinks
                 /\ hist'.ended = hist.ended]_vars

\* a second Execute call, made after the first had run cycles and ended by
\* cancellation, has returned nil while its own context is still live
C40_Witness ==
    /\ hist.barred
    /\ exec.pc = "returned"
    /\ exec.ret.kind = "nil"
    /\ exec.ctx = "live"
    /\ exec.listener = "waiting"
    /\ hist.ended >= 2

====
